---------------------------- MODULE Spec2Model ----------------------------
(***************************************************************************)
(* Model of the provider layer of stock_data_fetcher: the registry         *)
(* (DataSourceFactory), the credential lookup and the five adapters        *)
(* (Alpha Vantage, Yahoo Finance, IEX Cloud, Investing.com, Quandl).       *)
(*                                                                         *)
(* Strings that the code takes apart are modelled by their parts: a date   *)
(* string "YYYY-MM-DD" is the tuple <<y, m, d>>, a timestamp               *)
(* "YYYY-MM-DD HH:MM:SS" the tuple <<y, m, d, H, M, S>>, so that date[:10] *)
(* is the first three fields.  A message is the tuple of its pieces.       *)
(***************************************************************************)
EXTENDS Integers, Sequences, FiniteSets, TLC

VARIABLES
    environ,        \* os.environ: variable name -> value, or Unset
    data_sources,   \* DataSourceFactory.data_sources: name -> class
    instances,      \* the adapter objects constructed so far, oldest first
    call,           \* the call last made: operation and arguments
    getenv_calls,   \* the os.getenv lookups of the last call, in order
    sent,           \* the upstream requests issued by the last call, in order
    upstream,       \* what the upstream (or the random generator) answers
    log,            \* the log records of the last call, in order
    outcome,        \* how the last call ended: return, or raise of a class
    result,         \* the list get_historical_data returned (<<>> otherwise)
    reported,       \* what a caller (main, index) showed its user
    threads,        \* the position and locals of each concurrent caller
    terminal        \* the lines typed at the prompts of main() and its locals

vars == <<environ, data_sources, instances, call, getenv_calls, sent, upstream,
          log, outcome, result, reported,
          threads, terminal>>

-----------------------------------------------------------------------------
(* Exceptions: the classes of utils/exceptions.py and the builtins the     *)
(* adapters catch, with Python's subclass relation.                        *)

Base(cls) ==
    CASE cls = "DataSourceError"       -> "StockDataFetcherError"
      [] cls = "InvalidSymbolError"    -> "StockDataFetcherError"
      [] cls = "DateRangeError"        -> "StockDataFetcherError"
      [] cls = "APIError"              -> "StockDataFetcherError"
      [] cls = "StockDataFetcherError" -> "Exception"
      [] cls = "KeyError"              -> "LookupError"
      [] cls = "IndexError"            -> "LookupError"
      [] cls = "LookupError"           -> "Exception"
      [] cls = "ZeroDivisionError"     -> "ArithmeticError"
      [] cls = "ArithmeticError"       -> "Exception"
      [] cls = "RequestException"      -> "OSError"
      [] cls = "OSError"               -> "Exception"
      [] cls = "ValueError"            -> "Exception"
      [] cls = "TypeError"             -> "Exception"
      [] cls = "AttributeError"        -> "Exception"
      [] OTHER                         -> "BaseException"

RECURSIVE IsSubclass(_, _)
IsSubclass(cls, parent) ==
    IF cls = parent THEN TRUE
    ELSE IF cls = "BaseException" THEN FALSE
    ELSE IsSubclass(Base(cls), parent)

\* isinstance(e, classes) for the tuple of an except clause
Catches(classes, cls) == \E p \in classes : IsSubclass(cls, p)

Return == [kind |-> "return", exc |-> "", msg |-> <<>>]
Raise(cls, msg) == [kind |-> "raise", exc |-> cls, msg |-> msg]
NoCall == [kind |-> "none", exc |-> "", msg |-> <<>>]

Raised(o) == o.kind = "raise"
Returned(o) == o.kind = "return"

LogRec(level, event) == [level |-> level, event |-> event]

-----------------------------------------------------------------------------
(* The calendar of datetime: strptime("%Y-%m-%d") of a date string, the    *)
(* proleptic Gregorian ordinal of a date, timedelta arithmetic on it and   *)
(* strftime back to a string.                                              *)

IsLeap(y) == (y % 4 = 0) /\ ((y % 100 # 0) \/ (y % 400 = 0))

DaysInMonth(y, m) ==
    IF m = 2 THEN (IF IsLeap(y) THEN 29 ELSE 28)
    ELSE IF m \in {4, 6, 9, 11} THEN 30 ELSE 31

RECURSIVE DaysBeforeMonth(_, _)
DaysBeforeMonth(y, m) ==
    IF m = 1 THEN 0 ELSE DaysBeforeMonth(y, m - 1) + DaysInMonth(y, m - 1)

DaysBeforeYear(y) ==
    (y - 1) * 365 + ((y - 1) \div 4) - ((y - 1) \div 100) + ((y - 1) \div 400)

ValidDate(s) ==
    /\ Len(s) = 3
    /\ s[1] \in 1..9999
    /\ s[2] \in 1..12
    /\ s[3] \in 1..DaysInMonth(s[1], s[2])

\* date.toordinal() of a valid date string, as datetime.strptime(s, "%Y-%m-%d")
\* yields it; strptime raises ValueError when ValidDate(s) is false
ToOrdinal(s) == DaysBeforeYear(s[1]) + DaysBeforeMonth(s[1], s[2]) + s[3]

\* The years the model's dates can fall in, for the inverse of ToOrdinal.
ModelYears == 2023..2025

\* date.fromordinal(n), as the date string strftime("%Y-%m-%d") prints
FromOrdinal(n) ==
    LET y == CHOOSE yy \in ModelYears :
                 DaysBeforeYear(yy) < n /\ n <= DaysBeforeYear(yy + 1)
        r == n - DaysBeforeYear(y)
        m == CHOOSE mm \in 1..12 :
                 DaysBeforeMonth(y, mm) < r
                 /\ r <= DaysBeforeMonth(y, mm) + DaysInMonth(y, mm)
    IN  <<y, m, r - DaysBeforeMonth(y, m)>>

\* s[:10] of a date or timestamp string: the date part
Prefix10(s) == IF Len(s) <= 3 THEN s ELSE SubSeq(s, 1, 3)

-----------------------------------------------------------------------------
(* DataSourceFactory (data_sources/factory.py) and the adapters'           *)
(* constructors.                                                           *)

Unset == "<unset>"      \* os.getenv returns None
NoAttr == "<no attribute>"

\* The class-level registry dictionary.
Registry ==
    [alpha_vantage |-> "AlphaVantageDataSource",
     yahoo_finance |-> "YahooFinanceDataSource",
     iex_cloud     |-> "IEXCloudDataSource",
     investing_com |-> "InvestingComDataSource",
     quandl        |-> "QuandlDataSource"]

\* The source names a caller passes: the registry's and others.
SourceNames ==
    {"alpha_vantage", "yahoo_finance", "iex_cloud", "investing_com", "quandl",
     "invalid_source", "Quandl", ""}

\* str.upper() on the source names
Upper(source_name) ==
    CASE source_name = "alpha_vantage"  -> "ALPHA_VANTAGE"
      [] source_name = "yahoo_finance"  -> "YAHOO_FINANCE"
      [] source_name = "iex_cloud"      -> "IEX_CLOUD"
      [] source_name = "investing_com"  -> "INVESTING_COM"
      [] source_name = "quandl"         -> "QUANDL"
      [] source_name = "Quandl"         -> "QUANDL"
      [] source_name = "invalid_source" -> "INVALID_SOURCE"
      [] OTHER                          -> source_name

\* f"{source_name.upper()}_API_KEY"
ApiKeyVar(source_name) == <<Upper(source_name), "_API_KEY">>

\* The environment entries the model varies: the three API keys, and one
\* entry spelled in lower case that no lookup may take for the real one.
EnvVars ==
    {ApiKeyVar("alpha_vantage"), ApiKeyVar("iex_cloud"), ApiKeyVar("quandl"),
     <<"quandl", "_API_KEY">>}
EnvValues == {Unset, "", "dummy_key", "other_key"}

\* os.getenv(name)
Getenv(env, name) == IF name \in DOMAIN env THEN env[name] ELSE Unset

\* _get_api_key: the key, or ValueError when the entry is unset or empty
GetApiKeyMutant(env, source_name) ==
    LET api_key == Getenv(env, ApiKeyVar(source_name))
    IN  IF api_key = Unset
        THEN [out |-> Raise("ValueError",
                  <<"API key for ", source_name,
                    " not found in environment variables">>),
              api_key |-> Unset]
        ELSE [out |-> Return, api_key |-> api_key]

GetApiKey(env, source_name) ==
    LET api_key == Getenv(env, ApiKeyVar(source_name))
    IN  IF api_key = Unset \/ api_key = ""
        THEN [out |-> Raise("ValueError",
                  <<"API key for ", source_name,
                    " not found in environment variables">>),
              api_key |-> Unset]
        ELSE [out |-> Return, api_key |-> api_key]

\* The constructors: __init__ of each adapter class.  The two classes
\* without a key set only name (they do not call DataSource.__init__).
Construct(cls, api_key) ==
    CASE cls = "AlphaVantageDataSource" ->
            [cls |-> cls, name |-> "Alpha Vantage",
             base_url |-> "https://www.alphavantage.co/query",
             api_key |-> api_key]
      [] cls = "IEXCloudDataSource" ->
            [cls |-> cls, name |-> "IEX Cloud",
             base_url |-> "https://cloud.iexapis.com/stable",
             api_key |-> api_key]
      [] cls = "QuandlDataSource" ->
            [cls |-> cls, name |-> "Quandl",
             base_url |-> "https://www.quandl.com/api/v3/datasets",
             api_key |-> api_key]
      [] cls = "YahooFinanceDataSource" ->
            [cls |-> cls, name |-> "Yahoo Finance",
             base_url |-> NoAttr, api_key |-> NoAttr]
      [] cls = "InvestingComDataSource" ->
            [cls |-> cls, name |-> "Investing.com",
             base_url |-> NoAttr, api_key |-> NoAttr]

KeyedSourcesMutant == {"alpha_vantage", "iex_cloud", "quandl", "yahoo_finance"}

\* The names for which get_data_source resolves a credential.
KeyedSources == {"alpha_vantage", "iex_cloud", "quandl"}

\* What get_data_source computes: the outcome, the adapter it constructs
\* (when it returns) and the environment lookups it made.
DataSourceForMutant(registry, env, source_name) ==
    LET k == GetApiKey(env, source_name)
    IN  IF Raised(k.out)
        THEN [out |-> k.out, made |-> <<>>,
              lookups |-> <<ApiKeyVar(source_name)>>]
        ELSE IF source_name \notin DOMAIN registry
        THEN [out |-> Raise("ValueError", <<"Unsupported API: ", source_name>>),
              made |-> <<>>, lookups |-> <<ApiKeyVar(source_name)>>]
        ELSE [out |-> Return,
              made |-> <<Construct(registry[source_name], k.api_key)>>,
              lookups |-> <<ApiKeyVar(source_name)>>]

DataSourceFor(registry, env, source_name) ==
    IF source_name \notin DOMAIN registry
    THEN [out |-> Raise("ValueError", <<"Unsupported API: ", source_name>>),
          made |-> <<>>, lookups |-> <<>>]
    ELSE IF source_name \in KeyedSources
    THEN LET k == GetApiKey(env, source_name)
         IN  IF Raised(k.out)
             THEN [out |-> k.out, made |-> <<>>,
                   lookups |-> <<ApiKeyVar(source_name)>>]
             ELSE [out |-> Return,
                   made |-> <<Construct(registry[source_name], k.api_key)>>,
                   lookups |-> <<ApiKeyVar(source_name)>>]
    ELSE [out |-> Return,
          made |-> <<Construct(registry[source_name], NoAttr)>>,
          lookups |-> <<>>]

\* No caller has shown anything.
NothingReported == [by |-> "none"]

\* No concurrent callers run.
NoThreads == <<>>

\* main() is at no prompt.
NoTerminal == [at |-> "none"]

\* The most adapter objects a behaviour constructs.
MaxInstances == 2

\* No upstream is attached (the registry needs none).
NoUpstream == [api |-> "none"]

\* DataSourceFactory.get_data_source(source_name)
GetDataSource(source_name) ==
    LET r == DataSourceFor(data_sources, environ, source_name)
    IN  /\ Len(instances) + Len(r.made) <= MaxInstances
        /\ call' = [op |-> "get_data_source", source_name |-> source_name]
        /\ outcome' = r.out
        /\ instances' = instances \o r.made
        /\ getenv_calls' = r.lookups
        /\ sent' = <<>>
        /\ log' = <<>>
        /\ result' = <<>>
        /\ UNCHANGED <<environ, data_sources, upstream, reported, threads, terminal>>

FactoryInit ==
    /\ environ \in [EnvVars -> EnvValues]
    /\ data_sources = Registry
    /\ instances = <<>>
    /\ call = [op |-> "none"]
    /\ getenv_calls = <<>>
    /\ sent = <<>>
    /\ upstream = NoUpstream
    /\ log = <<>>
    /\ outcome = NoCall
    /\ result = <<>>
    /\ reported = NothingReported
    /\ threads = NoThreads
    /\ terminal = NoTerminal

FactoryNext == \E source_name \in SourceNames : GetDataSource(source_name)

FactorySpec == FactoryInit /\ [][FactoryNext]_vars

-----------------------------------------------------------------------------
(* What the adapters share: the days of the model, the JSON values of an   *)
(* upstream answer and Python's float() and int() on them.                 *)

\* The day i days after 2024-02-27: the model's dates lie around the end of
\* a leap February.
Day(i) == FromOrdinal(ToOrdinal(<<2024, 2, 27>>) + i)

\* The dates a caller asks for: any order of start and end occurs.
RequestDates == {Day(1), Day(2), Day(3)}
\* A date string strptime rejects: the 30th of February.
BadDate == <<2024, 2, 30>>
\* The dates handed to the adapters that parse them.
ParsedDates == RequestDates \cup {BadDate}
Symbols == {"AAPL"}

\* The most rows an upstream answer holds.
MaxRows == 2

\* The sequences without repetition of at most n elements of S.
RECURSIVE DistinctSeqs(_, _)
DistinctSeqs(S, n) ==
    IF n = 0 THEN {<<>>}
    ELSE LET shorter == DistinctSeqs(S, n - 1)
         IN  shorter \cup
             {Append(q[1], q[2]) :
                 q \in {p \in {t \in shorter : Len(t) = n - 1} \X S :
                           \A i \in DOMAIN p[1] : p[1][i] # p[2]}}

RangeOf(q) == {q[i] : i \in DOMAIN q}

\* d without the key k
Without(d, k) == [x \in DOMAIN d \ {k} |-> d[x]]

\* The empty JSON object
EmptyObject == [x \in {} |-> 0]

NoRepeat(q) == \A i, j \in DOMAIN q : q[i] = q[j] => i = j

\* A JSON string as Python's conversions see it: the text of a decimal
\* number (n hundredths), of an integer (n), or some other text.
DecStr(n) == [lex |-> "dec", n |-> n]
IntStr(n) == [lex |-> "int", n |-> n]

\* float(s): the number, ValueError for other text.  Prices are in hundredths.
FloatOk(s) == s.lex \in {"dec", "int"}
FloatOf(s) == IF s.lex = "int" THEN s.n * 100 ELSE s.n
\* int(s): the number, ValueError unless s is the text of an integer.
IntOk(s) == s.lex = "int"
IntOf(s) == s.n

\* The first outcome of a sequence that is a raise; Return if none is.
RECURSIVE FirstRaise(_)
FirstRaise(outs) ==
    IF outs = <<>> THEN Return
    ELSE IF Raised(Head(outs)) THEN Head(outs) ELSE FirstRaise(Tail(outs))

\* values[key] then float() or int() of it, as one field of a record is
\* built: KeyError for a missing key, ValueError for text that is no number.
Converted(values, key, conv) ==
    IF key \notin DOMAIN values THEN Raise("KeyError", <<key>>)
    ELSE IF conv = "float" /\ ~FloatOk(values[key])
    THEN Raise("ValueError", <<"could not convert string to float">>)
    ELSE IF conv = "int" /\ ~IntOk(values[key])
    THEN Raise("ValueError", <<"invalid literal for int()">>)
    ELSE Return

\* Seconds since midnight of a timestamp string (0 for a date string).
SecondsOf(ts) == IF Len(ts) = 6 THEN ts[4] * 3600 + ts[5] * 60 + ts[6] ELSE 0
\* The instant a date or timestamp string names: its day's ordinal and the
\* seconds since midnight.
InstantOf(ts) == <<ToOrdinal(Prefix10(ts)), SecondsOf(ts)>>

Failed(out, sent_, log_) ==
    [out |-> out, value |-> <<>>, sent |-> sent_, log |-> log_]
Succeeded(value, sent_, log_) ==
    [out |-> Return, value |-> value, sent |-> sent_, log |-> log_]

-----------------------------------------------------------------------------
(* AlphaVantageDataSource (data_sources/alpha_vantage.py).                 *)

IntervalFunctionsMutant ==
    ("1min" :> "TIME_SERIES_INTRADAY") @@ ("5min" :> "TIME_SERIES_INTRADAY")
    @@ ("15min" :> "TIME_SERIES_INTRADAY") @@ ("30min" :> "TIME_SERIES_INTRADAY")
    @@ ("60min" :> "TIME_SERIES_INTRADAY") @@ ("daily" :> "TIME_SERIES_DAILY")
    @@ ("weekly" :> "TIME_SERIES_WEEKLY") @@ ("monthly" :> "TIME_SERIES_MONTHLY")
    @@ ("hourly" :> "TIME_SERIES_DAILY")

\* _get_function_for_interval: the interval_functions dictionary
IntervalFunctions ==
    ("1min" :> "TIME_SERIES_INTRADAY") @@ ("5min" :> "TIME_SERIES_INTRADAY")
    @@ ("15min" :> "TIME_SERIES_INTRADAY") @@ ("30min" :> "TIME_SERIES_INTRADAY")
    @@ ("60min" :> "TIME_SERIES_INTRADAY") @@ ("daily" :> "TIME_SERIES_DAILY")
    @@ ("weekly" :> "TIME_SERIES_WEEKLY") @@ ("monthly" :> "TIME_SERIES_MONTHLY")

\* _get_time_series_key: the time_series_keys dictionary
TimeSeriesKeys ==
    ("TIME_SERIES_INTRADAY" :> "Time Series (1min)")
    @@ ("TIME_SERIES_DAILY" :> "Time Series (Daily)")
    @@ ("TIME_SERIES_WEEKLY" :> "Weekly Time Series")
    @@ ("TIME_SERIES_MONTHLY" :> "Monthly Time Series")

\* One entry of the series dictionary: its timestamp key and its values.
AVEntry(k) ==
    <<IF k = 2 THEN Day(k) \o <<10, 30, 0>> ELSE Day(k),
      ("1. open" :> DecStr(10000 + 100 * k)) @@ ("2. high" :> DecStr(10150 + 100 * k))
      @@ ("3. low" :> DecStr(9950 + 100 * k)) @@ ("4. close" :> DecStr(10050 + 100 * k))
      @@ ("5. volume" :> IntStr(1000 + k))>>

AVEntries == {AVEntry(k) : k \in 0..4}

\* The answers of the Alpha Vantage endpoint: a transport failure, or a JSON
\* object with one top-level key holding a series (or an error note).
AVResponseKeys ==
    {"Time Series (Daily)", "Time Series (1min)", "Time Series (5min)"}
AVUpstreams ==
    {[api |-> "alpha_vantage", http |-> "error", data |-> <<>>]}
    \cup {[api |-> "alpha_vantage", http |-> "ok",
           data |-> ("Error Message" :> <<>>)]}
    \cup {[api |-> "alpha_vantage", http |-> "ok", data |-> (key :> series)] :
            key \in AVResponseKeys, series \in DistinctSeqs(AVEntries, MaxRows)}
    \cup {[api |-> "alpha_vantage", http |-> "ok",
           data |-> ("Time Series (Daily)" :> <<<<Day(1), values>>>>)] :
            values \in {Without(AVEntry(1)[2], "5. volume"),
                        Without(AVEntry(1)[2], "1. open"),
                        [AVEntry(1)[2] EXCEPT !["5. volume"] = DecStr(100150)]}}

AVIntervals == {"daily", "1min", "5min", "hourly"}

\* The dictionary appended for one entry in range.
AVBar(date, values, interval) ==
    [date |-> date,
     open |-> FloatOf(values["1. open"]),
     high |-> FloatOf(values["2. high"]),
     low |-> FloatOf(values["3. low"]),
     close |-> FloatOf(values["4. close"]),
     volume |-> IntOf(values["5. volume"]),
     interval |-> interval]

AVBarOutcome(values) ==
    FirstRaise(<<Converted(values, "1. open", "float"),
                 Converted(values, "2. high", "float"),
                 Converted(values, "3. low", "float"),
                 Converted(values, "4. close", "float"),
                 Converted(values, "5. volume", "int")>>)

\* The range test of the loop: start <= date_obj <= end
AVInRangeMutant(start, date_obj, end) == start <= date_obj

AVInRangeBeforeEnd(start, date_obj, end) == start <= date_obj /\ date_obj < end

AVInRange(start, date_obj, end) == start <= date_obj /\ date_obj <= end

\* The loop over data[time_series_key].items(), in iteration order.
RECURSIVE AVCollectMutant(_, _, _, _, _)
AVCollectMutant(entries, start, end, interval, acc) ==
    IF entries = <<>> THEN [out |-> Return, value |-> acc]
    ELSE LET date == Head(entries)[1]
             values == Head(entries)[2]
         IN  IF ~ValidDate(Prefix10(date))
             THEN [out |-> Raise("ValueError", <<"time data does not match format">>),
                   value |-> <<>>]
             ELSE IF AVInRange(start, ToOrdinal(Prefix10(date)), end)
             THEN IF Raised(AVBarOutcome(values))
                  THEN [out |-> AVBarOutcome(values), value |-> <<>>]
                  ELSE AVCollectMutant(Tail(entries), start, end, interval,
                                 <<AVBar(date, values, interval)>> \o acc)
             ELSE AVCollectMutant(Tail(entries), start, end, interval, acc)

RECURSIVE AVCollect(_, _, _, _, _)
AVCollect(entries, start, end, interval, acc) ==
    IF entries = <<>> THEN [out |-> Return, value |-> acc]
    ELSE LET date == Head(entries)[1]
             values == Head(entries)[2]
         IN  IF ~ValidDate(Prefix10(date))
             THEN [out |-> Raise("ValueError", <<"time data does not match format">>),
                   value |-> <<>>]
             ELSE IF AVInRange(start, ToOrdinal(Prefix10(date)), end)
             THEN IF Raised(AVBarOutcome(values))
                  THEN [out |-> AVBarOutcome(values), value |-> <<>>]
                  ELSE AVCollect(Tail(entries), start, end, interval,
                                 Append(acc, AVBar(date, values, interval)))
             ELSE AVCollect(Tail(entries), start, end, interval, acc)

\* The body of the try block, after the response was received.
AVHistoricalBody(data, symbol, start_date, end_date, interval, function) ==
    LET time_series_key == TimeSeriesKeys[function]
    IN  IF time_series_key \notin DOMAIN data
        THEN [out |-> Raise("InvalidSymbolError", <<"No data found for symbol ", symbol>>),
              value |-> <<>>]
        ELSE IF ~ValidDate(start_date) \/ ~ValidDate(end_date)
        THEN [out |-> Raise("ValueError", <<"time data does not match format">>),
              value |-> <<>>]
        ELSE AVCollect(data[time_series_key], ToOrdinal(start_date),
                       ToOrdinal(end_date), interval, <<>>)

\* The except clauses of the Alpha Vantage methods.
AVExcept(out, what) ==
    IF ~Raised(out) THEN out
    ELSE IF Catches({"RequestException"}, out.exc)
    THEN Raise("APIError",
               <<"API error when fetching ", what, " from Alpha Vantage: ">> \o out.msg)
    ELSE IF Catches({"KeyError", "ValueError"}, out.exc)
    THEN Raise("DataSourceError",
               <<"Error processing ", what, " from Alpha Vantage: ">> \o out.msg)
    ELSE out

\* AlphaVantageDataSource.get_historical_data
AVHistorical(self, up, symbol, start_date, end_date, interval) ==
    LET fetching == LogRec("info", "fetching historical data")
    IN  IF interval \notin DOMAIN IntervalFunctions
        THEN Failed(Raise("ValueError", <<"Invalid interval: ", interval>>),
                    <<>>, <<fetching>>)
        ELSE
        LET function == IntervalFunctions[interval]
            request == [url |-> self.base_url, function |-> function,
                        symbol |-> symbol, apikey |-> self.api_key,
                        outputsize |-> "full"]
            body == IF up.http = "error"
                    THEN [out |-> Raise("RequestException", <<"request failed">>),
                          value |-> <<>>]
                    ELSE AVHistoricalBody(up.data, symbol, start_date, end_date,
                                          interval, function)
            out == AVExcept(body.out, "data")
        IN  IF Returned(out)
            THEN Succeeded(body.value, <<request>>,
                           <<fetching, LogRec("info", "fetched data points")>>)
            ELSE Failed(out, <<request>>,
                        <<fetching,
                          LogRec(IF out.exc = "InvalidSymbolError"
                                 THEN "warning" ELSE "error",
                                 IF out.exc = "InvalidSymbolError"
                                 THEN "no data found" ELSE "error")>>)

\* A call of get_historical_data: what every adapter's call leaves behind.
\* A session asks for the historical data once, as main() and index() do.
Historical(self, r, symbol, start_date, end_date, interval) ==
    /\ call.op = "none"
    /\ call' = [op |-> "get_historical_data", cls |-> self.cls,
                symbol |-> symbol, start_date |-> start_date,
                end_date |-> end_date, interval |-> interval]
    /\ outcome' = r.out
    /\ result' = r.value
    /\ sent' = r.sent
    /\ log' = r.log
    /\ getenv_calls' = <<>>
    /\ UNCHANGED <<environ, data_sources, instances, upstream, reported, threads, terminal>>

AlphaVantageHistorical(self, symbol, start_date, end_date, interval) ==
    /\ self.cls = "AlphaVantageDataSource"
    /\ upstream.api = "alpha_vantage"
    /\ Historical(self,
                  AVHistorical(self, upstream, symbol, start_date, end_date, interval),
                  symbol, start_date, end_date, interval)

-----------------------------------------------------------------------------
(* IEXCloudDataSource (data_sources/iex_cloud.py).                         *)

None == "None"

\* dict.get(key): the value, or None
DictGet(d, key) == IF key \in DOMAIN d THEN d[key] ELSE None

\* One item of the chart list; the odd ones carry the optional fields.
IEXItem(k) ==
    LET canonical ==
            ("date" :> Day(k)) @@ ("open" :> 10000 + 100 * k)
            @@ ("high" :> 10150 + 100 * k) @@ ("low" :> 9950 + 100 * k)
            @@ ("close" :> 10050 + 100 * k) @@ ("volume" :> 1000 + k)
    IN  IF k % 2 = 1
        THEN canonical @@ ("change" :> 50) @@ ("changePercent" :> 5)
             @@ ("vwap" :> 10020 + 100 * k) @@ ("unadjustedVolume" :> 1000 + k)
             @@ ("marketCap" :> 5000000)
        ELSE canonical

IEXItems == {IEXItem(k) : k \in 0..4}

\* The answers of the chart endpoint: a transport failure, or a JSON list.
IEXUpstreams ==
    {[api |-> "iex_cloud", http |-> "error", data |-> <<>>]}
    \cup {[api |-> "iex_cloud", http |-> "ok", data |-> items] :
            items \in DistinctSeqs(IEXItems, MaxRows)}
    \cup {[api |-> "iex_cloud", http |-> "ok", data |-> <<item>>] :
            item \in {Without(IEXItem(1), "close"), Without(IEXItem(2), "date")}}

IEXIntervals == {"1d", "5m"}

\* The direct key accesses of one item, in order: KeyError for a missing one.
IEXBarOutcomeMutant(item) ==
    FirstRaise([i \in 1..7 |->
        LET key == <<"date", "open", "high", "low", "close", "volume", "change">>[i]
        IN  IF key \in DOMAIN item THEN Return ELSE Raise("KeyError", <<key>>)])

IEXBarOutcome(item) ==
    FirstRaise([i \in 1..6 |->
        LET key == <<"date", "open", "high", "low", "close", "volume">>[i]
        IN  IF key \in DOMAIN item THEN Return ELSE Raise("KeyError", <<key>>)])

IEXBar(item, interval) ==
    [date |-> item["date"],
     open |-> item["open"],
     high |-> item["high"],
     low |-> item["low"],
     close |-> item["close"],
     volume |-> item["volume"],
     interval |-> interval,
     change |-> DictGet(item, "change"),
     change_percent |-> DictGet(item, "changePercent"),
     vwap |-> DictGet(item, "vwap"),
     unadjusted_volume |-> DictGet(item, "unadjustedVolume"),
     market_cap |-> DictGet(item, "marketCap")]

\* The list comprehension over data.
IEXCollect(data, interval) ==
    LET outs == [i \in DOMAIN data |-> IEXBarOutcome(data[i])]
    IN  IF Raised(FirstRaise(outs))
        THEN [out |-> FirstRaise(outs), value |-> <<>>]
        ELSE [out |-> Return,
              value |-> [i \in DOMAIN data |-> IEXBar(data[i], interval)]]

\* "if not data": the emptiness test of the IEX methods
IEXNoData(data) == data = <<>>

\* The except clauses of the IEX Cloud methods.
IEXExcept(out, what) ==
    IF ~Raised(out) THEN out
    ELSE IF Catches({"RequestException"}, out.exc)
    THEN Raise("APIError",
               <<"API error when fetching ", what, " from IEX Cloud: ">> \o out.msg)
    ELSE IF Catches({"KeyError", "TypeError"}, out.exc)
    THEN Raise("DataSourceError",
               <<"Error processing ", what, " from IEX Cloud: ">> \o out.msg)
    ELSE out

\* The log records of an HTTP adapter's call that ended with out.
HttpCallLog(out) ==
    <<LogRec("info", "fetching historical data"),
      IF Returned(out) THEN LogRec("info", "fetched data points")
      ELSE IF out.exc = "InvalidSymbolError" THEN LogRec("warning", "no data found")
      ELSE LogRec("error", "error")>>

\* IEXCloudDataSource.get_historical_data
IEXHistorical(self, up, symbol, start_date, end_date, interval) ==
    LET request == [url |-> <<self.base_url, "/stock/", symbol, "/chart/range">>,
                    token |-> self.api_key, from |-> start_date, to |-> end_date,
                    chartInterval |-> interval]
        body == IF up.http = "error"
                THEN [out |-> Raise("RequestException", <<"request failed">>),
                      value |-> <<>>]
                ELSE IF IEXNoData(up.data)
                THEN [out |-> Raise("InvalidSymbolError",
                                    <<"No data found for symbol ", symbol>>),
                      value |-> <<>>]
                ELSE IEXCollect(up.data, interval)
        out == IEXExcept(body.out, "data")
    IN  IF Returned(out)
        THEN Succeeded(body.value, <<request>>, HttpCallLog(out))
        ELSE Failed(out, <<request>>, HttpCallLog(out))

-----------------------------------------------------------------------------
(* QuandlDataSource (data_sources/quandl.py).                              *)

\* The columns of a WIKI dataset, in the order the upstream lists them.
QuandlColumns ==
    <<"Date", "Open", "High", "Low", "Close", "Volume", "Ex-Dividend",
      "Split Ratio", "Adj. Open", "Adj. High", "Adj. Low", "Adj. Close",
      "Adj. Volume">>

Reversed(q) == [i \in DOMAIN q |-> q[Len(q) + 1 - i]]

\* The cells of a JSON array hold values of different types: a cell is
\* tagged with its type, and reading it yields the bare value.
JStr(v) == [str |-> v]
JNum(n) == [num |-> n]
CellValue(c) == IF "str" \in DOMAIN c THEN c.str ELSE c.num

\* The values of one row, by column.
\* The day the dataset records with an Open of 0.
ZeroOpenDay == 5

QuandlValues(k) ==
    ("Date" :> JStr(Day(k)))
    @@ ("Open" :> JNum(IF k = ZeroOpenDay THEN 0 ELSE 10000 + 100 * k))
    @@ ("High" :> JNum(10150 + 100 * k)) @@ ("Low" :> JNum(9950 + 100 * k))
    @@ ("Close" :> JNum(10050 + 100 * k)) @@ ("Volume" :> JNum(1000 + k))
    @@ ("Ex-Dividend" :> JNum(0)) @@ ("Split Ratio" :> JNum(100))
    @@ ("Adj. Open" :> JNum(5000 + 50 * k)) @@ ("Adj. High" :> JNum(5075 + 50 * k))
    @@ ("Adj. Low" :> JNum(4975 + 50 * k)) @@ ("Adj. Close" :> JNum(5025 + 50 * k))
    @@ ("Adj. Volume" :> JNum(2000 + 2 * k))

\* The positional row the upstream sends for those values under a column list.
QuandlRow(k, columns) == [i \in DOMAIN columns |-> QuandlValues(k)[columns[i]]]

\* The answers of the dataset endpoint: a transport failure, or a JSON
\* object, with or without "dataset", "data" and "column_names".
QuandlUpstreams ==
    {[api |-> "quandl", http |-> "error", data |-> <<>>]}
    \cup {[api |-> "quandl", http |-> "ok", data |-> ("quandl_error" :> <<>>)]}
    \cup {[api |-> "quandl", http |-> "ok",
           data |-> ("dataset" :> ("column_names" :> QuandlColumns))]}
    \cup {[api |-> "quandl", http |-> "ok",
           data |-> ("dataset" :> ("data" :> rows))] :
            rows \in {<<>>, <<QuandlRow(1, QuandlColumns)>>}}
    \cup {[api |-> "quandl", http |-> "ok",
           data |-> ("dataset" :>
                       (("column_names" :> columns)
                        @@ ("data" :> [i \in DOMAIN ks |-> QuandlRow(ks[i], columns)])))] :
            columns \in {QuandlColumns, Reversed(QuandlColumns)},
            ks \in DistinctSeqs(0..4, MaxRows)}
    \cup {[api |-> "quandl", http |-> "ok",
           data |-> ("dataset" :>
                       (("column_names" :> columns)
                        @@ ("data" :> <<QuandlRow(1, columns)>>)))] :
            columns \in {SubSeq(QuandlColumns, 1, 12), Tail(QuandlColumns)}}
    \cup {[api |-> "quandl", http |-> "ok",
           data |-> ("dataset" :>
                       (("column_names" :> QuandlColumns)
                        @@ ("data" :> <<SubSeq(QuandlRow(1, QuandlColumns), 1, 6)>>)))]}
    \cup {[api |-> "quandl", http |-> "ok",
           data |-> ("dataset" :>
                       (("column_names" :> QuandlColumns)
                        @@ ("data" :> <<QuandlRow(ZeroOpenDay, QuandlColumns)>>)))]}

QuandlIntervals == {"daily", "weekly"}

\* list.index(x), counted from 1; 0 stands for the ValueError of a missing x
IndexOf(list, x) ==
    IF \E i \in DOMAIN list : list[i] = x
    THEN CHOOSE i \in DOMAIN list : list[i] = x /\ \A j \in 1..(i - 1) : list[j] # x
    ELSE 0

\* item[column_names.index(column)]: ValueError when the column is not
\* listed, IndexError when the row is shorter than the column's position
QuandlCellOutcome(item, column_names, column) ==
    IF IndexOf(column_names, column) = 0
    THEN Raise("ValueError", <<column, " is not in list">>)
    ELSE IF IndexOf(column_names, column) > Len(item)
    THEN Raise("IndexError", <<"list index out of range">>)
    ELSE Return

QuandlCellMutant(item, column_names, column) ==
    CellValue(item[IndexOf(column_names,
                           IF column = "Open" THEN "Close" ELSE column)])

QuandlCell(item, column_names, column) ==
    CellValue(item[IndexOf(column_names, column)])

\* The columns a historical record reads, in the order it reads them.
QuandlHistoricalColumns == QuandlColumns

QuandlBarOutcome(item, column_names) ==
    FirstRaise([i \in DOMAIN QuandlHistoricalColumns |->
                   QuandlCellOutcome(item, column_names, QuandlHistoricalColumns[i])])

QuandlBar(item, column_names, interval) ==
    [date |-> QuandlCell(item, column_names, "Date"),
     open |-> QuandlCell(item, column_names, "Open"),
     high |-> QuandlCell(item, column_names, "High"),
     low |-> QuandlCell(item, column_names, "Low"),
     close |-> QuandlCell(item, column_names, "Close"),
     volume |-> QuandlCell(item, column_names, "Volume"),
     interval |-> interval,
     ex_dividend |-> QuandlCell(item, column_names, "Ex-Dividend"),
     split_ratio |-> QuandlCell(item, column_names, "Split Ratio"),
     adj_open |-> QuandlCell(item, column_names, "Adj. Open"),
     adj_high |-> QuandlCell(item, column_names, "Adj. High"),
     adj_low |-> QuandlCell(item, column_names, "Adj. Low"),
     adj_close |-> QuandlCell(item, column_names, "Adj. Close"),
     adj_volume |-> QuandlCell(item, column_names, "Adj. Volume")]

\* The body of the try block of get_historical_data, after the response.
QuandlHistoricalBody(data, symbol, interval) ==
    IF "dataset" \notin DOMAIN data \/ "data" \notin DOMAIN data["dataset"]
    THEN [out |-> Raise("InvalidSymbolError", <<"No data found for symbol ", symbol>>),
          value |-> <<>>]
    ELSE IF "column_names" \notin DOMAIN data["dataset"]
    THEN [out |-> Raise("KeyError", <<"column_names">>), value |-> <<>>]
    ELSE LET column_names == data["dataset"]["column_names"]
             rows == data["dataset"]["data"]
             outs == [i \in DOMAIN rows |-> QuandlBarOutcome(rows[i], column_names)]
         IN  IF Raised(FirstRaise(outs))
             THEN [out |-> FirstRaise(outs), value |-> <<>>]
             ELSE [out |-> Return,
                   value |-> [i \in DOMAIN rows |->
                                 QuandlBar(rows[i], column_names, interval)]]

\* The except clauses of the Quandl methods.
QuandlExcept(out, what) ==
    IF ~Raised(out) THEN out
    ELSE IF Catches({"RequestException"}, out.exc)
    THEN Raise("APIError",
               <<"API error when fetching ", what, " from Quandl: ">> \o out.msg)
    ELSE IF Catches({"KeyError", "IndexError", "TypeError"}, out.exc)
    THEN Raise("DataSourceError",
               <<"Error processing ", what, " from Quandl: ">> \o out.msg)
    ELSE out

\* QuandlDataSource.get_historical_data
QuandlHistorical(self, up, symbol, start_date, end_date, interval) ==
    LET request == [url |-> <<self.base_url, "/WIKI/", symbol, ".json">>,
                    api_key |-> self.api_key, start_date |-> start_date,
                    end_date |-> end_date, collapse |-> interval]
        body == IF up.http = "error"
                THEN [out |-> Raise("RequestException", <<"request failed">>),
                      value |-> <<>>]
                ELSE QuandlHistoricalBody(up.data, symbol, interval)
        out == QuandlExcept(body.out, "data")
    IN  IF Returned(out)
        THEN Succeeded(body.value, <<request>>, HttpCallLog(out))
        ELSE Failed(out, <<request>>, HttpCallLog(out))

-----------------------------------------------------------------------------
(* YahooFinanceDataSource (data_sources/yahoo_finance.py).                 *)

\* _get_interval: the granularity_map dictionary, and its default
GranularityMap ==
    ("1m" :> "1m") @@ ("5m" :> "5m") @@ ("15m" :> "15m") @@ ("30m" :> "30m")
    @@ ("60m" :> "60m") @@ ("1h" :> "60m") @@ ("1d" :> "1d") @@ ("5d" :> "5d")
    @@ ("1wk" :> "1wk") @@ ("1mo" :> "1mo") @@ ("3mo" :> "3mo")

GetIntervalMutant(granularity) ==
    IF granularity \in DOMAIN GranularityMap THEN GranularityMap[granularity]
    ELSE granularity

GetInterval(granularity) ==
    IF granularity \in DOMAIN GranularityMap THEN GranularityMap[granularity]
    ELSE "1d"

\* The intervals for which the start date is clamped.
ClampedIntervals == {"1m", "2m", "5m", "15m", "30m", "60m", "90m", "1h"}

\* The longest intraday range, in days.
IntradayLimitDays == 7

\* The start handed to ticker.history: end - 7 days for an intraday interval
\* over a longer range, the requested start otherwise (ordinals of midnights).
ClampedStartMutant(interval, start, end) ==
    IF interval \in ClampedIntervals /\ end - start >= IntradayLimitDays
    THEN end - IntradayLimitDays - 1
    ELSE start

ClampedStart(interval, start, end) ==
    IF interval \in ClampedIntervals /\ end - start > IntradayLimitDays
    THEN end - IntradayLimitDays
    ELSE start

\* A pandas Timestamp: the ordinal of its day and the seconds since midnight.
Timestamp(ord, sec) == [ord |-> ord, sec |-> sec]

\* Timestamp.strftime("%Y-%m-%d %H:%M:%S")
StrftimeSeconds(t) ==
    FromOrdinal(t.ord) \o <<t.sec \div 3600, (t.sec % 3600) \div 60, t.sec % 60>>

\* datetime.strftime("%Y-%m-%d") of a midnight
StrftimeDate(ord) == FromOrdinal(ord)

\* The columns of the frame ticker.history returns, beside its index.
YahooColumns ==
    <<"Open", "High", "Low", "Close", "Volume", "Dividends", "Stock Splits">>

\* One row of the frame: its index value and its columns.
YahooRow(k) ==
    [index |-> Timestamp(ToOrdinal(Day(k)), IF k = 2 THEN 37800 ELSE 0),
     cells |-> ("Open" :> 10000 + 100 * k) @@ ("High" :> 10150 + 100 * k)
               @@ ("Low" :> 9950 + 100 * k) @@ ("Close" :> 10050 + 100 * k)
               @@ ("Volume" :> 1000 + k) @@ ("Dividends" :> 0)
               @@ ("Stock Splits" :> 0)]

\* What ticker.history does: it raises, or returns a frame whose index is
\* named Date (daily) or Datetime (intraday); the frame may be empty.
\* A frame whose index has another name ("date", or "index" for an unnamed
\* one) is possible too.
YahooLibraryErrors == {"Exception", "ValueError", "KeyError", "AttributeError"}
YahooUpstreams ==
    {[api |-> "yahoo_finance", history |-> "raise", exc |-> e, index_name |-> "",
      rows |-> <<>>] : e \in YahooLibraryErrors}
    \cup {[api |-> "yahoo_finance", history |-> "frame", exc |-> "", index_name |-> n,
           rows |-> [i \in DOMAIN ks |-> YahooRow(ks[i])]] :
            n \in {"Date", "Datetime"}, ks \in DistinctSeqs(0..4, MaxRows)}
    \cup {[api |-> "yahoo_finance", history |-> "frame", exc |-> "", index_name |-> n,
           rows |-> [i \in DOMAIN ks |-> YahooRow(ks[i])]] :
            n \in {"date", "index"}, ks \in {<<1>>, <<2, 1>>}}

YahooStartDates == {Day(0 - 6), Day(0 - 5), Day(0 - 4), Day(3), BadDate}
YahooEndDates == {Day(2), Day(3), BadDate}
YahooGranularities == {"5m", "1h", "1d", "1wk", "2m", "fast"}

\* str.lower() of a column name
Lower(name) ==
    CASE name = "Date" -> "date"
      [] name = "Datetime" -> "datetime"
      [] name = "Open" -> "open"
      [] name = "High" -> "high"
      [] name = "Low" -> "low"
      [] name = "Close" -> "close"
      [] name = "Volume" -> "volume"
      [] name = "Dividends" -> "dividends"
      [] name = "Stock Splits" -> "stock splits"
      [] OTHER -> name

\* The columns after reset_index: the index first.
ResetColumns(index_name) == <<index_name>> \o YahooColumns

\* next(col for col in df.columns if col.lower() in ["date", "datetime"]),
\* with "" for the default None
DateColumnMutant(columns) ==
    IF \E i \in DOMAIN columns : columns[i] \in {"Date", "Datetime"}
    THEN columns[CHOOSE i \in DOMAIN columns :
                    /\ columns[i] \in {"Date", "Datetime"}
                    /\ \A j \in 1..(i - 1) : columns[j] \notin {"Date", "Datetime"}]
    ELSE ""

DateColumn(columns) ==
    IF \E i \in DOMAIN columns : Lower(columns[i]) \in {"date", "datetime"}
    THEN columns[CHOOSE i \in DOMAIN columns :
                    /\ Lower(columns[i]) \in {"date", "datetime"}
                    /\ \A j \in 1..(i - 1) : Lower(columns[j]) \notin {"date", "datetime"}]
    ELSE ""

\* df.rename(columns={date_column: "Date", "Open": "open", ...})
Renamed(column, date_column) ==
    CASE column = date_column -> "Date"
      [] column = "Open" -> "open"
      [] column = "High" -> "high"
      [] column = "Low" -> "low"
      [] column = "Close" -> "close"
      [] column = "Volume" -> "volume"
      [] OTHER -> column

\* One record of df.to_dict("records") after the conversion and the rename.
YahooBar(row, index_name, date_column) ==
    LET columns == ResetColumns(index_name)
        names == {Renamed(columns[i], date_column) : i \in DOMAIN columns}
        from(n) == CHOOSE c \in RangeOf(columns) : Renamed(c, date_column) = n
    IN  [n \in names |->
            IF from(n) = index_name
            THEN (IF from(n) = date_column THEN StrftimeSeconds(row.index)
                  ELSE row.index)
            ELSE row.cells[from(n)]]

\* The except clauses of the Yahoo Finance methods.
YahooExceptMutant(out, what) ==
    IF ~Raised(out) THEN out
    ELSE IF Catches({"Exception"}, out.exc)
    THEN Raise("StockDataFetcherError",
               <<"Error fetching ", what, " from Yahoo Finance: ">> \o out.msg)
    ELSE out

YahooExcept(out, what) ==
    IF ~Raised(out) THEN out
    ELSE IF Catches({"InvalidSymbolError"}, out.exc) THEN out
    ELSE IF Catches({"Exception"}, out.exc)
    THEN Raise("StockDataFetcherError",
               <<"Error fetching ", what, " from Yahoo Finance: ">> \o out.msg)
    ELSE out

\* YahooFinanceDataSource.get_historical_data
YahooHistorical(self, up, symbol, start_date, end_date, granularity) ==
    LET fetching == LogRec("info", "fetching historical data")
        failed == LogRec("error", "error")
        interval == GetInterval(granularity)
    IN  IF ~ValidDate(start_date) \/ ~ValidDate(end_date)
        THEN Failed(YahooExcept(Raise("ValueError",
                                      <<"time data does not match format">>), "data"),
                    <<>>, <<fetching, failed>>)
        ELSE
        LET end == ToOrdinal(end_date)
            start == ClampedStart(interval, ToOrdinal(start_date), end)
            adjusted == IF start # ToOrdinal(start_date)
                        THEN <<[level |-> "warning", event |-> "adjusted start date",
                                start |-> StrftimeDate(start)]>>
                        ELSE <<>>
            request == [op |-> "history", symbol |-> symbol, start |-> start,
                        end |-> end, interval |-> interval]
            date_column == DateColumn(ResetColumns(up.index_name))
            out == YahooExcept(
                     IF up.history = "raise" THEN Raise(up.exc, <<"API Error">>)
                     ELSE IF up.rows = <<>>
                     THEN Raise("InvalidSymbolError",
                                <<"No data found for symbol: ", symbol>>)
                     ELSE IF date_column = ""
                     THEN Raise("StockDataFetcherError",
                                <<"Date/Datetime column not found in the data">>)
                     ELSE Return, "data")
        IN  IF Returned(out)
            THEN Succeeded([i \in DOMAIN up.rows |->
                               YahooBar(up.rows[i], up.index_name, date_column)],
                           <<request>>,
                           <<fetching>> \o adjusted
                           \o <<LogRec("info", "fetched historical data"),
                                LogRec("debug", "sample data")>>)
            ELSE Failed(out, <<request>>,
                        <<fetching>> \o adjusted
                        \o (IF up.history = "frame" /\ up.rows = <<>>
                            THEN <<LogRec("warning", "no data found")>>
                            ELSE IF up.history = "frame"
                            THEN <<failed, failed>>
                            ELSE <<failed>>))

-----------------------------------------------------------------------------
(* InvestingComDataSource (data_sources/investing_com.py): mock data from  *)
(* a random walk.  Prices are in hundredths; a draw of random() is a       *)
(* number of hundredths between 0 and 100.                                 *)

\* random.uniform(50, 200), in hundredths
BasePriceLow == 5000
BasePriceHigh == 20000
\* random.uniform(-5, 5), in hundredths
StepSpread == 500
\* random.uniform(0, 0.02) and random.uniform(-0.01, 0.01), in 1/10000
HighLowSpread == 200
CloseSpread == 100
\* random.randint(100000, 1000000)
VolumeLow == 100000
VolumeHigh == 1000000

\* a + (b - a) * random() for the draw u, with a and b integers
Uniform(a, b, u) == a + ((b - a) * u) \div 100

\* round() of the ratio num / den (den > 0) to the nearest integer, ties to
\* the even one
RoundDiv(num, den) ==
    LET q == num \div den
        r == num - q * den
    IN  IF 2 * r < den THEN q
        ELSE IF 2 * r > den THEN q + 1
        ELSE IF q % 2 = 0 THEN q ELSE q + 1

\* The draws of one call: the base price's, the walk's steps (repeating
\* with a period), and those of high, low, close and volume.
StepPeriod == 2
InvestingUpstreams ==
    {[api |-> "investing_com", base |-> b, step |-> st, high |-> h, low |-> l,
      close |-> c, volume |-> 50] :
        b \in {0, 100}, st \in [1..StepPeriod -> {0, 50, 100}],
        h \in {0, 100}, l \in {0, 100}, c \in {0, 50, 100}}

InvestingStartDates == {Day(0 - 6), Day(1), Day(2), Day(3), BadDate}
InvestingGranularities == {"1d", "5m"}

\* The high of a bar: round(price * (1 + random.uniform(0, 0.02)), 2)
InvestingHigh(price, u) ==
    RoundDiv(price * (10000 + Uniform(0, HighLowSpread, u)), 10000)

\* The dictionary appended for one day.
InvestingBar(current_date, price, rng) ==
    [date |-> StrftimeDate(current_date),
     open |-> price,
     high |-> InvestingHigh(price, rng.high),
     low |-> RoundDiv(price * (10000 - Uniform(0, HighLowSpread, rng.low)), 10000),
     close |-> RoundDiv(price * (10000 + Uniform(0 - CloseSpread, CloseSpread,
                                                rng.close)), 10000),
     volume |-> Uniform(VolumeLow, VolumeHigh, rng.volume)]

\* The loop condition: while current_date <= end
InvestingContinuesMutant(current_date, end) == current_date < end

InvestingContinues(current_date, end) == current_date <= end

\* The while loop: one bar per day, the next base price the last close.
RECURSIVE InvestingWalk(_, _, _, _, _, _)
InvestingWalk(current_date, end, base_price, n, rng, acc) ==
    IF ~InvestingContinues(current_date, end) THEN acc
    ELSE LET price == base_price
                      + Uniform(0 - StepSpread, StepSpread,
                                rng.step[(n % Len(rng.step)) + 1])
             bar == InvestingBar(current_date, price, rng)
         IN  InvestingWalk(current_date + 1, end, bar.close, n + 1, rng,
                           Append(acc, bar))

\* The except clauses of get_historical_data.
InvestingExcept(out) ==
    IF ~Raised(out) THEN out
    ELSE IF Catches({"ValueError"}, out.exc)
    THEN Raise("DateRangeError", <<"Invalid date format: ">> \o out.msg)
    ELSE IF Catches({"Exception"}, out.exc)
    THEN Raise("DataSourceError", <<"Error generating mock data: ">> \o out.msg)
    ELSE out

\* InvestingComDataSource.get_historical_data
InvestingHistorical(self, up, symbol, start_date, end_date, granularity) ==
    LET generating == LogRec("info", "generating mock data")
        out == InvestingExcept(
                 IF ~ValidDate(start_date) \/ ~ValidDate(end_date)
                 THEN Raise("ValueError", <<"time data does not match format">>)
                 ELSE IF ToOrdinal(start_date) > ToOrdinal(end_date)
                 THEN Raise("DateRangeError", <<"Start date must be before end date">>)
                 ELSE Return)
    IN  IF Returned(out)
        THEN Succeeded(InvestingWalk(ToOrdinal(start_date), ToOrdinal(end_date),
                                     Uniform(BasePriceLow, BasePriceHigh, up.base),
                                     0, up, <<>>),
                       <<>>, <<generating, LogRec("info", "generated data points")>>)
        ELSE Failed(out, <<>>, <<generating, LogRec("error", "error")>>)

YahooGetHistorical(self, symbol, start_date, end_date, granularity) ==
    /\ self.cls = "YahooFinanceDataSource"
    /\ upstream.api = "yahoo_finance"
    /\ Historical(self,
                  YahooHistorical(self, upstream, symbol, start_date, end_date,
                                  granularity),
                  symbol, start_date, end_date, granularity)

InvestingGetHistorical(self, symbol, start_date, end_date, granularity) ==
    /\ self.cls = "InvestingComDataSource"
    /\ upstream.api = "investing_com"
    /\ Historical(self,
                  InvestingHistorical(self, upstream, symbol, start_date, end_date,
                                      granularity),
                  symbol, start_date, end_date, granularity)

IEXCloudHistorical(self, symbol, start_date, end_date, interval) ==
    /\ self.cls = "IEXCloudDataSource"
    /\ upstream.api = "iex_cloud"
    /\ Historical(self,
                  IEXHistorical(self, upstream, symbol, start_date, end_date, interval),
                  symbol, start_date, end_date, interval)

QuandlGetHistorical(self, symbol, start_date, end_date, interval) ==
    /\ self.cls = "QuandlDataSource"
    /\ upstream.api = "quandl"
    /\ Historical(self,
                  QuandlHistorical(self, upstream, symbol, start_date, end_date, interval),
                  symbol, start_date, end_date, interval)

-----------------------------------------------------------------------------
(* get_realtime_data of the five adapters.  The quote a call returns is    *)
(* kept as the one element of result.                                      *)

RealtimeSymbols == {"AAPL", ""}

\* The log records of a get_realtime_data call that ended with out.
RealtimeLog(out) ==
    <<LogRec("info", "fetching real-time data"),
      IF Returned(out) THEN LogRec("info", "fetched real-time data")
      ELSE IF out.exc = "InvalidSymbolError" THEN LogRec("warning", "no data found")
      ELSE LogRec("error", "error")>>

\* A call of get_realtime_data: what every adapter's call leaves behind.
Realtime(self, r, symbol) ==
    /\ call.op = "none"
    /\ call' = [op |-> "get_realtime_data", cls |-> self.cls, symbol |-> symbol]
    /\ outcome' = r.out
    /\ result' = r.value
    /\ sent' = r.sent
    /\ log' = r.log
    /\ getenv_calls' = <<>>
    /\ UNCHANGED <<environ, data_sources, instances, upstream, reported, threads, terminal>>

\* The text of a percentage, "1.5%": str.rstrip("%") leaves the number's text.
PercentStr(n) == [lex |-> "dec%", n |-> n]
RStripPercent(s) == IF s.lex = "dec%" THEN DecStr(s.n) ELSE s

\* The "Global Quote" object of Alpha Vantage.
AVQuote ==
    ("01. symbol" :> "AAPL") @@ ("02. open" :> DecStr(10000))
    @@ ("03. high" :> DecStr(10150)) @@ ("04. low" :> DecStr(9950))
    @@ ("05. price" :> DecStr(10050)) @@ ("06. volume" :> IntStr(1000))
    @@ ("07. latest trading day" :> Day(2)) @@ ("08. previous close" :> DecStr(9900))
    @@ ("09. change" :> DecStr(150)) @@ ("10. change percent" :> PercentStr(152))

\* The answers of the GLOBAL_QUOTE function: a transport failure, an object
\* without "Global Quote", or one holding a quote: complete, empty, lacking
\* a field, or with a field that is no number.
AVQuoteUpstreams ==
    {[api |-> "alpha_vantage/quote", http |-> "error", data |-> EmptyObject]}
    \cup {[api |-> "alpha_vantage/quote", http |-> "ok", data |-> d] :
            d \in {EmptyObject, ("Error Message" :> <<>>)}}
    \cup {[api |-> "alpha_vantage/quote", http |-> "ok",
           data |-> ("Global Quote" :> q)] :
            q \in {AVQuote, EmptyObject, Without(AVQuote, "06. volume"),
                   Without(AVQuote, "10. change percent"),
                   [AVQuote EXCEPT !["06. volume"] = DecStr(100050)],
                   [AVQuote EXCEPT !["10. change percent"] = DecStr(152)]}}

\* The fields of the quote in the order the dictionary literal reads them.
AVQuoteOutcome(quote) ==
    LET stripped == IF "10. change percent" \in DOMAIN quote
                    THEN [quote EXCEPT !["10. change percent"] = RStripPercent(@)]
                    ELSE quote
    IN  FirstRaise(<<Converted(stripped, "05. price", "float"),
                     Converted(stripped, "09. change", "float"),
                     Converted(stripped, "10. change percent", "float"),
                     Converted(stripped, "06. volume", "int"),
                     Converted(stripped, "07. latest trading day", "none"),
                     Converted(stripped, "02. open", "float"),
                     Converted(stripped, "03. high", "float"),
                     Converted(stripped, "04. low", "float"),
                     Converted(stripped, "08. previous close", "float")>>)

AVQuoteRecord(symbol, quote) ==
    [symbol |-> symbol,
     price |-> FloatOf(quote["05. price"]),
     change |-> FloatOf(quote["09. change"]),
     change_percent |-> FloatOf(RStripPercent(quote["10. change percent"])),
     volume |-> IntOf(quote["06. volume"]),
     last_updated |-> quote["07. latest trading day"],
     open |-> FloatOf(quote["02. open"]),
     high |-> FloatOf(quote["03. high"]),
     low |-> FloatOf(quote["04. low"]),
     previous_close |-> FloatOf(quote["08. previous close"])]

\* AlphaVantageDataSource.get_realtime_data
AVRealtime(self, up, symbol) ==
    LET request == [url |-> self.base_url, function |-> "GLOBAL_QUOTE",
                    symbol |-> symbol, apikey |-> self.api_key]
        body == IF up.http = "error"
                THEN Raise("RequestException", <<"request failed">>)
                ELSE IF "Global Quote" \notin DOMAIN up.data
                THEN Raise("InvalidSymbolError", <<"No data found for symbol ", symbol>>)
                ELSE AVQuoteOutcome(up.data["Global Quote"])
        out == AVExcept(body, "real-time data")
    IN  IF Returned(out)
        THEN Succeeded(<<AVQuoteRecord(symbol, up.data["Global Quote"])>>,
                       <<request>>, RealtimeLog(out))
        ELSE Failed(out, <<request>>, RealtimeLog(out))

AlphaVantageRealtime(self, symbol) ==
    /\ self.cls = "AlphaVantageDataSource"
    /\ upstream.api = "alpha_vantage/quote"
    /\ Realtime(self, AVRealtime(self, upstream, symbol), symbol)

\* The keys get_realtime_data of IEX Cloud reads with data[...], in order,
\* and those it reads with data.get(...).
IEXQuoteKeys ==
    <<"symbol", "latestPrice", "change", "changePercent", "volume",
      "latestUpdate", "open", "high", "low", "previousClose", "marketCap",
      "peRatio", "week52High", "week52Low", "ytdChange">>
IEXQuoteOptional == <<"iexBidPrice", "iexAskPrice", "iexBidSize", "iexAskSize">>

\* The quote object of IEX Cloud, without and with the optional fields.
IEXQuote ==
    [k \in RangeOf(IEXQuoteKeys) |->
        IF k = "symbol" THEN "AAPL" ELSE IndexOf(IEXQuoteKeys, k) * 100]
IEXQuoteFull ==
    IEXQuote @@ [k \in RangeOf(IEXQuoteOptional) |-> IndexOf(IEXQuoteOptional, k) * 7]

\* The answers of the quote endpoint.
IEXQuoteUpstreams ==
    {[api |-> "iex_cloud/quote", http |-> "error", data |-> EmptyObject]}
    \cup {[api |-> "iex_cloud/quote", http |-> "ok", data |-> d] :
            d \in {EmptyObject, IEXQuote, IEXQuoteFull,
                   Without(IEXQuote, "peRatio"), Without(IEXQuoteFull, "symbol"),
                   Without(IEXQuoteFull, "iexBidSize"),
                   Without(IEXQuote, "latestUpdate")}}

IEXQuoteOutcome(data) ==
    FirstRaise([i \in DOMAIN IEXQuoteKeys |->
        IF IEXQuoteKeys[i] \in DOMAIN data THEN Return
        ELSE Raise("KeyError", <<IEXQuoteKeys[i]>>)])

IEXQuoteRecord(data) ==
    [symbol |-> data["symbol"], price |-> data["latestPrice"],
     change |-> data["change"], change_percent |-> data["changePercent"],
     volume |-> data["volume"], last_updated |-> data["latestUpdate"],
     open |-> data["open"], high |-> data["high"], low |-> data["low"],
     previous_close |-> data["previousClose"], market_cap |-> data["marketCap"],
     pe_ratio |-> data["peRatio"], week_52_high |-> data["week52High"],
     week_52_low |-> data["week52Low"], ytd_change |-> data["ytdChange"],
     bid |-> DictGet(data, "iexBidPrice"), ask |-> DictGet(data, "iexAskPrice"),
     bid_size |-> DictGet(data, "iexBidSize"),
     ask_size |-> DictGet(data, "iexAskSize")]

\* IEXCloudDataSource.get_realtime_data
IEXRealtime(self, up, symbol) ==
    LET request == [url |-> <<self.base_url, "/stock/", symbol, "/quote">>,
                    token |-> self.api_key]
        body == IF up.http = "error"
                THEN Raise("RequestException", <<"request failed">>)
                ELSE IF IEXNoData(up.data)
                THEN Raise("InvalidSymbolError", <<"No data found for symbol ", symbol>>)
                ELSE IEXQuoteOutcome(up.data)
        out == IEXExcept(body, "real-time data")
    IN  IF Returned(out)
        THEN Succeeded(<<IEXQuoteRecord(up.data)>>, <<request>>, RealtimeLog(out))
        ELSE Failed(out, <<request>>, RealtimeLog(out))

IEXCloudRealtime(self, symbol) ==
    /\ self.cls = "IEXCloudDataSource"
    /\ upstream.api = "iex_cloud/quote"
    /\ Realtime(self, IEXRealtime(self, upstream, symbol), symbol)

\* The columns get_realtime_data of Quandl looks up, in the order the
\* dictionary literal evaluates them.
QuandlRealtimeColumns ==
    <<"Date", "Close", "Close", "Open", "Close", "Open", "Open", "Volume",
      "Open", "High", "Low", "Close", "Ex-Dividend", "Split Ratio", "Adj. Open",
      "Adj. High", "Adj. Low", "Adj. Close", "Adj. Volume">>

\* The quotient of two numbers as Python's true division yields it.
Ratio(num, den) == [num |-> num, den |-> den]

\* The failure of building the record from the latest row, if any: the
\* lookups in order, the division by the opening price among them.
QuandlQuoteOutcome(latest_data, column_names) ==
    LET lookups == [i \in DOMAIN QuandlRealtimeColumns |->
                       QuandlCellOutcome(latest_data, column_names,
                                         QuandlRealtimeColumns[i])]
        division == IF QuandlCell(latest_data, column_names, "Open") = 0
                    THEN Raise("ZeroDivisionError", <<"division by zero">>)
                    ELSE Return
    IN  IF Raised(FirstRaise(SubSeq(lookups, 1, 7)))
        THEN FirstRaise(SubSeq(lookups, 1, 7))
        ELSE IF Raised(division) THEN division
        ELSE FirstRaise(lookups)

QuandlQuoteRecordMutant(symbol, latest_data, column_names) ==
    LET cell(c) == QuandlCell(latest_data, column_names, c)
    IN  [symbol |-> symbol, date |-> cell("Date"), price |-> cell("Adj. Close"),
         change |-> cell("Open") - cell("Close"),
         change_percent |-> Ratio((cell("Close") - cell("Open")) * 100, cell("Close")),
         volume |-> cell("Adj. Volume"), open |-> cell("Open"), high |-> cell("High"),
         low |-> cell("Low"), close |-> cell("Close"),
         ex_dividend |-> cell("Ex-Dividend"), split_ratio |-> cell("Split Ratio"),
         adj_open |-> cell("Adj. Open"), adj_high |-> cell("Adj. High"),
         adj_low |-> cell("Adj. Low"), adj_close |-> cell("Adj. Close"),
         adj_volume |-> cell("Adj. Volume")]

QuandlQuoteRecord(symbol, latest_data, column_names) ==
    LET cell(c) == QuandlCell(latest_data, column_names, c)
    IN  [symbol |-> symbol, date |-> cell("Date"), price |-> cell("Close"),
         change |-> cell("Close") - cell("Open"),
         change_percent |-> Ratio((cell("Close") - cell("Open")) * 100, cell("Open")),
         volume |-> cell("Volume"), open |-> cell("Open"), high |-> cell("High"),
         low |-> cell("Low"), close |-> cell("Close"),
         ex_dividend |-> cell("Ex-Dividend"), split_ratio |-> cell("Split Ratio"),
         adj_open |-> cell("Adj. Open"), adj_high |-> cell("Adj. High"),
         adj_low |-> cell("Adj. Low"), adj_close |-> cell("Adj. Close"),
         adj_volume |-> cell("Adj. Volume")]

\* QuandlDataSource.get_realtime_data
QuandlRealtime(self, up, symbol) ==
    LET request == [url |-> <<self.base_url, "/WIKI/", symbol, ".json">>,
                    api_key |-> self.api_key, limit |-> 1]
        nodata == \/ "dataset" \notin DOMAIN up.data
                  \/ "data" \notin DOMAIN up.data["dataset"]
                  \/ up.data["dataset"]["data"] = <<>>
        body == IF up.http = "error"
                THEN Raise("RequestException", <<"request failed">>)
                ELSE IF nodata
                THEN Raise("InvalidSymbolError", <<"No data found for symbol ", symbol>>)
                ELSE IF "column_names" \notin DOMAIN up.data["dataset"]
                THEN Raise("KeyError", <<"column_names">>)
                ELSE QuandlQuoteOutcome(up.data["dataset"]["data"][1],
                                        up.data["dataset"]["column_names"])
        out == QuandlExcept(body, "latest data")
    IN  IF Returned(out)
        THEN Succeeded(<<QuandlQuoteRecord(symbol, up.data["dataset"]["data"][1],
                                           up.data["dataset"]["column_names"])>>,
                       <<request>>, RealtimeLog(out))
        ELSE Failed(out, <<request>>, RealtimeLog(out))

QuandlGetRealtime(self, symbol) ==
    /\ self.cls = "QuandlDataSource"
    /\ upstream.api = "quandl"
    /\ Realtime(self, QuandlRealtime(self, upstream, symbol), symbol)

\* None as a value held in a dictionary beside tagged numbers and strings.
PyNone == [none |-> TRUE]
IsNone(v) == "none" \in DOMAIN v

\* info.get(key): the value, None for a missing key
InfoGet(info, key) == IF key \in DOMAIN info THEN info[key] ELSE PyNone

\* ticker.info of yfinance: the property raises, or yields a dictionary:
\* empty, complete, lacking fields, or holding None for one.
YahooInfo ==
    ("currentPrice" :> JNum(15000)) @@ ("change" :> JNum(250))
    @@ ("changePercent" :> JNum(167)) @@ ("volume" :> JNum(1000000))
    @@ ("regularMarketTime" :> JNum(1709202600)) @@ ("shortName" :> JStr("Apple"))

YahooInfoUpstreams ==
    {[api |-> "yahoo_finance/info", info |-> "raise", exc |-> e,
      data |-> EmptyObject] : e \in YahooLibraryErrors}
    \cup {[api |-> "yahoo_finance/info", info |-> "dict", exc |-> "", data |-> d] :
            d \in {EmptyObject, YahooInfo, ("currentPrice" :> JNum(10000)),
                   Without(YahooInfo, "change"), Without(YahooInfo, "changePercent"),
                   Without(YahooInfo, "volume"), Without(YahooInfo, "regularMarketTime"),
                   Without(YahooInfo, "currentPrice"), Without(YahooInfo, "shortName"),
                   [YahooInfo EXCEPT !["volume"] = PyNone],
                   ("shortName" :> JStr("Apple"))}}

YahooQuoteRecord(symbol, info) ==
    [symbol |-> JStr(symbol),
     price |-> InfoGet(info, "currentPrice"),
     change |-> InfoGet(info, "change"),
     change_percent |-> InfoGet(info, "changePercent"),
     volume |-> InfoGet(info, "volume"),
     last_updated |-> InfoGet(info, "regularMarketTime")]

\* any(value is None for value in realtime_data.values())
YahooIncompleteMutant(realtime_data) == IsNone(realtime_data.price)

YahooIncomplete(realtime_data) ==
    \E k \in DOMAIN realtime_data : IsNone(realtime_data[k])

\* YahooFinanceDataSource.get_realtime_data
YahooRealtime(self, up, symbol) ==
    LET fetching == LogRec("info", "fetching real-time data")
        failed == LogRec("error", "error")
        request == [op |-> "info", symbol |-> symbol]
        realtime_data == YahooQuoteRecord(symbol, up.data)
        body == IF up.info = "raise" THEN Raise(up.exc, <<"API Error">>)
                ELSE IF up.data = EmptyObject
                THEN Raise("InvalidSymbolError",
                           <<"No data found for symbol: ", symbol>>)
                ELSE IF YahooIncomplete(realtime_data)
                THEN Raise("StockDataFetcherError",
                           <<"Incomplete real-time data for ", symbol>>)
                ELSE Return
        out == YahooExcept(body, "real-time data")
    IN  IF Returned(out)
        THEN Succeeded(<<realtime_data>>, <<request>>,
                       <<fetching, LogRec("info", "fetched real-time data")>>)
        ELSE Failed(out, <<request>>,
                    <<fetching>>
                    \o (IF body.exc = "InvalidSymbolError"
                        THEN <<LogRec("warning", "no data found")>>
                        ELSE IF up.info = "raise" THEN <<failed>>
                        ELSE <<failed, failed>>))

YahooGetRealtime(self, symbol) ==
    /\ self.cls = "YahooFinanceDataSource"
    /\ upstream.api = "yahoo_finance/info"
    /\ Realtime(self, YahooRealtime(self, upstream, symbol), symbol)

\* The draws of one get_realtime_data call of the Investing.com adapter, and
\* the clock datetime.now() reads.
InvestingQuoteUpstreams ==
    {[api |-> "investing_com/quote", price |-> p, change |-> c, volume |-> v,
      now |-> <<2024, 2, 29, 10, 30, 0>>] :
        p \in {0, 50, 100}, c \in {0, 50, 100}, v \in {0, 100}}

InvestingQuoteRecord(symbol, rng) ==
    LET price == Uniform(BasePriceLow, BasePriceHigh, rng.price)
        change == Uniform(0 - StepSpread, StepSpread, rng.change)
    IN  [symbol |-> symbol,
         price |-> price,
         change |-> change,
         change_percent |-> RoundDiv(change * 10000, price),
         volume |-> Uniform(VolumeLow, VolumeHigh, rng.volume),
         last_updated |-> rng.now]

\* The except clause of get_realtime_data.
InvestingRealtimeExcept(out) ==
    IF ~Raised(out) THEN out
    ELSE IF Catches({"Exception"}, out.exc)
    THEN Raise("DataSourceError",
               <<"Error generating mock real-time data: ">> \o out.msg)
    ELSE out

\* InvestingComDataSource.get_realtime_data
InvestingRealtime(self, up, symbol) ==
    LET generating == LogRec("info", "generating mock real-time data")
        out == InvestingRealtimeExcept(
                 IF symbol = ""
                 THEN Raise("InvalidSymbolError", <<"Invalid symbol provided">>)
                 ELSE Return)
    IN  IF Returned(out)
        THEN Succeeded(<<InvestingQuoteRecord(symbol, up)>>, <<>>,
                       <<generating, LogRec("info", "generated real-time data")>>)
        ELSE Failed(out, <<>>, <<generating, LogRec("error", "error")>>)

InvestingGetRealtime(self, symbol) ==
    /\ self.cls = "InvestingComDataSource"
    /\ upstream.api = "investing_com/quote"
    /\ Realtime(self, InvestingRealtime(self, upstream, symbol), symbol)

-----------------------------------------------------------------------------
(* The adapters under their upstreams: each behaviour attaches one         *)
(* upstream (as a test attaches a mock) and calls the adapter against it.  *)

Upstreams ==
    AVUpstreams \cup IEXUpstreams \cup QuandlUpstreams \cup YahooUpstreams
    \cup InvestingUpstreams \cup AVQuoteUpstreams \cup IEXQuoteUpstreams
    \cup YahooInfoUpstreams \cup InvestingQuoteUpstreams

\* The adapters as their constructors build them.
Adapters ==
    <<Construct("AlphaVantageDataSource", "dummy_key"),
      Construct("YahooFinanceDataSource", NoAttr),
      Construct("IEXCloudDataSource", "dummy_key"),
      Construct("InvestingComDataSource", NoAttr),
      Construct("QuandlDataSource", "dummy_key")>>

Init ==
    /\ environ = [v \in EnvVars |-> Unset]
    /\ data_sources = Registry
    /\ instances = Adapters
    /\ upstream \in Upstreams
    /\ call = [op |-> "none"]
    /\ getenv_calls = <<>>
    /\ sent = <<>>
    /\ log = <<>>
    /\ outcome = NoCall
    /\ result = <<>>
    /\ reported = NothingReported
    /\ threads = NoThreads
    /\ terminal = NoTerminal

Next ==
    \/ \E i \in DOMAIN instances, symbol \in Symbols,
          start_date \in ParsedDates, end_date \in ParsedDates,
          interval \in AVIntervals :
           AlphaVantageHistorical(instances[i], symbol, start_date, end_date, interval)
    \/ \E i \in DOMAIN instances, symbol \in Symbols,
          start_date \in RequestDates, end_date \in RequestDates,
          interval \in IEXIntervals :
           IEXCloudHistorical(instances[i], symbol, start_date, end_date, interval)
    \/ \E i \in DOMAIN instances, symbol \in Symbols,
          start_date \in RequestDates, end_date \in RequestDates,
          interval \in QuandlIntervals :
           QuandlGetHistorical(instances[i], symbol, start_date, end_date, interval)
    \/ \E i \in DOMAIN instances, symbol \in Symbols,
          start_date \in YahooStartDates, end_date \in YahooEndDates,
          granularity \in YahooGranularities :
           YahooGetHistorical(instances[i], symbol, start_date, end_date, granularity)
    \/ \E i \in DOMAIN instances, symbol \in Symbols,
          start_date \in InvestingStartDates, end_date \in ParsedDates,
          granularity \in InvestingGranularities :
           InvestingGetHistorical(instances[i], symbol, start_date, end_date,
                                  granularity)
    \/ \E i \in DOMAIN instances, symbol \in RealtimeSymbols :
           AlphaVantageRealtime(instances[i], symbol)
    \/ \E i \in DOMAIN instances, symbol \in RealtimeSymbols :
           IEXCloudRealtime(instances[i], symbol)
    \/ \E i \in DOMAIN instances, symbol \in RealtimeSymbols :
           QuandlGetRealtime(instances[i], symbol)
    \/ \E i \in DOMAIN instances, symbol \in RealtimeSymbols :
           YahooGetRealtime(instances[i], symbol)
    \/ \E i \in DOMAIN instances, symbol \in RealtimeSymbols :
           InvestingGetRealtime(instances[i], symbol)

Spec == Init /\ [][Next]_vars

-----------------------------------------------------------------------------
(* The callers: main() of main.py (command line) and index() of app.py     *)
(* (web form).  Each picks an adapter from the registry, asks it for the   *)
(* historical data and the quote, and reports what its handlers decide.    *)

\* get_historical_data and get_realtime_data of the adapter self, by class.
HistoricalOf(self, up, symbol, start_date, end_date, granularity) ==
    CASE self.cls = "AlphaVantageDataSource" ->
            AVHistorical(self, up, symbol, start_date, end_date, granularity)
      [] self.cls = "YahooFinanceDataSource" ->
            YahooHistorical(self, up, symbol, start_date, end_date, granularity)
      [] self.cls = "IEXCloudDataSource" ->
            IEXHistorical(self, up, symbol, start_date, end_date, granularity)
      [] self.cls = "InvestingComDataSource" ->
            InvestingHistorical(self, up, symbol, start_date, end_date, granularity)
      [] self.cls = "QuandlDataSource" ->
            QuandlHistorical(self, up, symbol, start_date, end_date, granularity)

RealtimeOf(self, up, symbol) ==
    CASE self.cls = "AlphaVantageDataSource" -> AVRealtime(self, up, symbol)
      [] self.cls = "YahooFinanceDataSource" -> YahooRealtime(self, up, symbol)
      [] self.cls = "IEXCloudDataSource" -> IEXRealtime(self, up, symbol)
      [] self.cls = "InvestingComDataSource" -> InvestingRealtime(self, up, symbol)
      [] self.cls = "QuandlDataSource" -> QuandlRealtime(self, up, symbol)

\* What the provider behind one registry name answers during a session: to
\* the historical request and to the realtime one.
SessionUpstreams ==
    {[api |-> "session", source |-> "alpha_vantage", historical |-> h, realtime |-> q] :
        h \in {[api |-> "alpha_vantage", http |-> "ok",
                data |-> ("Time Series (Daily)" :> <<AVEntry(1), AVEntry(2)>>)],
               [api |-> "alpha_vantage", http |-> "error", data |-> <<>>]},
        q \in {[api |-> "alpha_vantage/quote", http |-> "ok",
                data |-> ("Global Quote" :> AVQuote)]}}
    \cup
    {[api |-> "session", source |-> "yahoo_finance", historical |-> h, realtime |-> q] :
        h \in {[api |-> "yahoo_finance", history |-> "frame", exc |-> "",
                index_name |-> "Date",
                rows |-> rows] : rows \in {<<>>, <<YahooRow(1), YahooRow(2)>>}},
        q \in {[api |-> "yahoo_finance/info", info |-> "dict", exc |-> "", data |-> d] :
                  d \in {YahooInfo, Without(YahooInfo, "change")}}}
    \cup
    {[api |-> "session", source |-> "iex_cloud", historical |-> h, realtime |-> q] :
        h \in {[api |-> "iex_cloud", http |-> "ok", data |-> items] :
                  items \in {<<>>, <<IEXItem(1), IEXItem(2)>>}},
        q \in {[api |-> "iex_cloud/quote", http |-> "ok", data |-> d] :
                  d \in {IEXQuoteFull, Without(IEXQuote, "peRatio")}}}
    \cup
    {[api |-> "session", source |-> "investing_com", historical |-> h, realtime |-> q] :
        h \in {[api |-> "investing_com", base |-> b, step |-> [i \in 1..StepPeriod |-> 50],
                high |-> 100, low |-> 100, close |-> 50, volume |-> 50] : b \in {0, 100}},
        q \in {[api |-> "investing_com/quote", price |-> 50, change |-> 50,
                volume |-> 50, now |-> <<2024, 2, 29, 10, 30, 0>>]}}
    \cup
    {[api |-> "session", source |-> "quandl", historical |-> h, realtime |-> h] :
        h \in {[api |-> "quandl", http |-> "ok",
                data |-> ("dataset" :>
                            (("column_names" :> QuandlColumns)
                             @@ ("data" :> [i \in DOMAIN ks |->
                                              QuandlRow(ks[i], QuandlColumns)])))] :
                  ks \in {<<>>, <<1, 2>>}}}

\* The try block that main() and index() share: the adapter from the
\* registry, then its historical data, then its quote; the first exception
\* ends it.
FetchedFrom(ds, h, q) ==
    IF Raised(h.out)
    THEN [out |-> h.out, made |-> ds.made, lookups |-> ds.lookups,
          historical_data |-> <<>>, realtime_data |-> <<>>,
          sent |-> h.sent, log |-> h.log]
    ELSE [out |-> q.out, made |-> ds.made, lookups |-> ds.lookups,
          historical_data |-> h.value, realtime_data |-> q.value,
          sent |-> h.sent \o q.sent, log |-> h.log \o q.log]

FetchedWith(ds, up, symbol, start_date, end_date, granularity) ==
    IF Raised(ds.out)
    THEN [out |-> ds.out, made |-> <<>>, lookups |-> ds.lookups,
          historical_data |-> <<>>, realtime_data |-> <<>>,
          sent |-> <<>>, log |-> <<>>]
    ELSE FetchedFrom(ds,
                     HistoricalOf(ds.made[1], up.historical, symbol,
                                  start_date, end_date, granularity),
                     RealtimeOf(ds.made[1], up.realtime, symbol))

Fetched(registry, env, up, api_name, symbol, start_date, end_date, granularity) ==
    FetchedWith(DataSourceFor(registry, env, api_name), up, symbol,
                start_date, end_date, granularity)

\* The except clauses of main() and of index(): the handler that takes the
\* exception of the try block.
HandlerOf(out) ==
    IF ~Raised(out) THEN "none"
    ELSE IF Catches({"StockDataFetcherError"}, out.exc) THEN "StockDataFetcherError"
    ELSE IF Catches({"Exception"}, out.exc) THEN "Exception"
    ELSE "uncaught"

\* start_date > end_date on the date strings (compared as text, field by
\* field for zero-padded dates)
DateTextGreater(a, b) ==
    \/ a[1] > b[1]
    \/ a[1] = b[1] /\ a[2] > b[2]
    \/ a[1] = b[1] /\ a[2] = b[2] /\ a[3] > b[3]

\* What main() prints for the outcome of its try block.
MainReport(out) ==
    CASE HandlerOf(out) = "none" ->
            [by |-> "main", handler |-> "none", shown |-> "data", error |-> <<>>]
      [] HandlerOf(out) = "StockDataFetcherError" ->
            [by |-> "main", handler |-> "StockDataFetcherError", shown |-> "error",
             error |-> <<"An error occurred: ">> \o out.msg]
      [] OTHER ->
            [by |-> "main", handler |-> "Exception", shown |-> "error",
             error |-> <<"An unexpected error occurred. Please check the logs for more information.">>]

MainLog(out) ==
    CASE HandlerOf(out) = "none" -> <<LogRec("info", "successfully fetched data")>>
      [] HandlerOf(out) = "StockDataFetcherError" -> <<LogRec("error", "error occurred")>>
      [] OTHER -> <<LogRec("exception", "unexpected error")>>

\* The try block of main(), from the inputs it has read.
MainTry(registry, env, up, api_name, symbol, start_date, end_date, granularity) ==
    LET nothing == [made |-> <<>>, lookups |-> <<>>, historical_data |-> <<>>,
                    realtime_data |-> <<>>, sent |-> <<>>, log |-> <<>>]
    IN  IF symbol = ""
        THEN [out |-> Raise("InvalidSymbolError", <<"Stock symbol cannot be empty">>)]
             @@ nothing
        ELSE IF DateTextGreater(start_date, end_date)
        THEN [out |-> Raise("DateRangeError", <<"Start date cannot be after end date">>)]
             @@ nothing
        ELSE [Fetched(registry, env, up, api_name, symbol, start_date, end_date,
                      granularity)
              EXCEPT !.log = <<LogRec("info", "fetching data")>> \o @]

\* main() without --web
Main(api_name, symbol, start_date, end_date, granularity) ==
    /\ call.op = "none"
    /\ upstream.api = "session"
    /\ api_name \in DOMAIN data_sources => api_name = upstream.source
    /\ \E r \in {MainTry(data_sources, environ, upstream, api_name, symbol,
                         start_date, end_date, granularity)} :
          /\ call' = [op |-> "main", api_name |-> api_name, symbol |-> symbol,
                      start_date |-> start_date, end_date |-> end_date,
                      interval |-> granularity]
          /\ outcome' = r.out
          /\ instances' = instances \o r.made
          /\ getenv_calls' = r.lookups
          /\ sent' = r.sent
          /\ log' = log \o r.log \o MainLog(r.out)
          /\ result' = r.historical_data
          /\ reported' = MainReport(r.out)
    /\ UNCHANGED <<environ, data_sources, upstream, threads, terminal>>

\* request.form["symbol"].upper() on the symbols of the model
SymbolUpper(symbol) == IF symbol = "aapl" THEN "AAPL" ELSE symbol

\* validate_symbol: the pattern ^[A-Z]{1,5}$ on the symbols of the model
FormSymbols == {"AAPL", "aapl", "", "GOOGLE"}
validate_symbol(symbol) == symbol \in {"AAPL"}

\* The data points index() can plot: those with a "Date" and a "Close".
Plottable(historical_data) ==
    SelectSeq(historical_data,
              LAMBDA data_point : {"Date", "Close"} \subseteq DOMAIN data_point)

\* The try block of index(): the fetch, then the extraction for the chart.
Extracted(f) ==
    IF Raised(f.out) THEN f
    ELSE IF f.historical_data = <<>>
    THEN [f EXCEPT !.out = Raise("StockDataFetcherError",
             <<"No historical data available for the given parameters.">>)]
    ELSE IF Plottable(f.historical_data) = <<>>
    THEN [f EXCEPT !.out = Raise("StockDataFetcherError",
             <<"Unable to extract valid date and price data.">>),
                   !.log = @ \o [i \in DOMAIN f.historical_data |->
                                   LogRec("warning", "incomplete data point")]]
    ELSE f

IndexTry(registry, env, up, api, symbol, start_date, end_date, granularity) ==
    Extracted(Fetched(registry, env, up, api, symbol, start_date, end_date,
                      granularity))

\* The page index() renders for the outcome of its try block.
IndexReport(out) ==
    CASE HandlerOf(out) = "none" ->
            [by |-> "index", handler |-> "none", shown |-> "results.html",
             error |-> <<>>]
      [] HandlerOf(out) = "StockDataFetcherError" ->
            [by |-> "index", handler |-> "StockDataFetcherError",
             shown |-> "index.html", error |-> out.msg]
      [] OTHER ->
            [by |-> "index", handler |-> "Exception", shown |-> "index.html",
             error |-> <<"An unexpected error occurred. Please try again later.">>]

IndexLog(out) ==
    CASE HandlerOf(out) = "none" -> <<>>
      [] HandlerOf(out) = "StockDataFetcherError" ->
            <<LogRec("error", "StockDataFetcherError")>>
      [] OTHER -> <<LogRec("exception", "unexpected error")>>

\* index() on a POST of the form
Index(api, form_symbol, start_date, end_date, granularity) ==
    /\ call.op = "none"
    /\ upstream.api = "session"
    /\ api \in DOMAIN data_sources => api = upstream.source
    /\ call' = [op |-> "index", api_name |-> api,
                symbol |-> SymbolUpper(form_symbol),
                start_date |-> start_date, end_date |-> end_date,
                interval |-> granularity]
    /\ IF ~validate_symbol(SymbolUpper(form_symbol))
       THEN /\ reported' = [by |-> "index", handler |-> "validation",
                            shown |-> "index.html",
                            error |-> <<"Invalid stock symbol. Please enter 1-5 uppercase letters.">>]
            /\ outcome' = Return
            /\ UNCHANGED <<instances, getenv_calls, sent, log, result>>
       ELSE \E r \in {IndexTry(data_sources, environ, upstream, api,
                               SymbolUpper(form_symbol), start_date, end_date,
                               granularity)} :
                /\ reported' = IndexReport(r.out)
                /\ outcome' = r.out
                /\ instances' = instances \o r.made
                /\ getenv_calls' = r.lookups
                /\ sent' = r.sent
                /\ log' = r.log \o IndexLog(r.out)
                /\ result' = r.historical_data
    /\ UNCHANGED <<environ, data_sources, upstream, threads, terminal>>

\* The credentials of a session: none set, or all set.
SessionEnvirons ==
    {[v \in EnvVars |-> Unset], [v \in EnvVars |-> "dummy_key"]}

\* What the user types or passes for the provider and the granularity.
CallerApiNames ==
    {"alpha_vantage", "yahoo_finance", "iex_cloud", "investing_com", "quandl",
     "invalid_source"}
CallerGranularities == {"1d", "daily"}

MainInit ==
    /\ environ \in SessionEnvirons
    /\ data_sources = Registry
    /\ instances = <<>>
    /\ upstream \in SessionUpstreams
    /\ call = [op |-> "none"]
    /\ getenv_calls = <<>>
    /\ sent = <<>>
    /\ log = <<>>
    /\ outcome = NoCall
    /\ result = <<>>
    /\ reported = NothingReported
    /\ threads = NoThreads
    /\ terminal = NoTerminal

\* The dates the command line asks for and those a form posts.
MainStartDates == {Day(1), Day(3)}
FormStartDates == {Day(1), BadDate}
CallerEndDates == {Day(2)}

MainNext ==
    \/ \E api_name \in CallerApiNames, symbol \in RealtimeSymbols,
          start_date \in MainStartDates, end_date \in CallerEndDates,
          granularity \in CallerGranularities :
           Main(api_name, symbol, start_date, end_date, granularity)
    \/ \E api \in CallerApiNames, symbol \in FormSymbols,
          start_date \in FormStartDates, end_date \in CallerEndDates,
          granularity \in CallerGranularities :
           Index(api, symbol, start_date, end_date, granularity)

MainSpec == MainInit /\ [][MainNext]_vars

-----------------------------------------------------------------------------
(* The date prompts of main(): the try block from the defaults of the two  *)
(* dates to the call of the factory, reading the dates with                *)
(* get_date_input of utils/input_utils.py.                                 *)

\* The most lines the user types at the date prompts.
MaxLines == 4

\* The line of a bare Enter.
EmptyLine == <<>>
\* The lines the user types: nothing, the text of no date, and dates.
DateLines == {EmptyLine, BadDate, Day(1), Day(3)}
TypedLines == UNION {[1..n -> DateLines] : n \in 0..MaxLines}

\* datetime.now() of the run, and the defaults main() computes from it
Today == Day(2)
DefaultEndDate == Today
DefaultStartDate == FromOrdinal(ToOrdinal(Today) - 365)

\* value or default, on strings: the default for the empty string
OrDefault(value, default) == IF value = EmptyLine THEN default ELSE value

\* The prompt main() goes to when get_date_input has returned.
AfterPrompt(prompt) == IF prompt = "start_date" THEN "end_date" ELSE "compare"

\* One pass of the loop of get_date_input, called by main() for the start
\* date or for the end date: input() takes the next line; when strptime
\* accepts it the function returns it and main() assigns `it or default`,
\* otherwise the warning is logged and the loop asks again.
get_date_input(prompt) ==
    /\ call.op = "none"
    /\ terminal.at = prompt
    /\ terminal.stdin # <<>>
    /\ IF ValidDate(Head(terminal.stdin))
       THEN /\ terminal' = [terminal EXCEPT
                               ![prompt] = OrDefault(Head(terminal.stdin), @),
                               !.stdin = Tail(@),
                               !.at = AfterPrompt(prompt)]
            /\ log' = log
       ELSE /\ terminal' = [terminal EXCEPT !.stdin = Tail(@)]
            /\ log' = Append(log, LogRec("warning", "invalid date format entered"))
    /\ UNCHANGED <<environ, data_sources, instances, call, getenv_calls, sent,
                   upstream, outcome, result, reported, threads>>

\* main() from the comparison of the two dates on, with the dates read at
\* the prompts; the symbol it read before them was not empty.
PromptedMain ==
    /\ terminal.at = "compare"
    /\ \E api_name \in CallerApiNames, symbol \in RealtimeSymbols \ {""},
          granularity \in CallerGranularities :
           Main(api_name, symbol, terminal.start_date, terminal.end_date,
                granularity)

PromptInit ==
    /\ environ \in SessionEnvirons
    /\ data_sources = Registry
    /\ instances = <<>>
    /\ upstream \in SessionUpstreams
    /\ call = [op |-> "none"]
    /\ getenv_calls = <<>>
    /\ sent = <<>>
    /\ log = <<>>
    /\ outcome = NoCall
    /\ result = <<>>
    /\ reported = NothingReported
    /\ threads = NoThreads
    /\ terminal \in {[at |-> "start_date", stdin |-> lines,
                       start_date |-> DefaultStartDate,
                       end_date |-> DefaultEndDate] : lines \in TypedLines}

PromptNext ==
    \/ get_date_input("start_date")
    \/ get_date_input("end_date")
    \/ PromptedMain

PromptSpec == PromptInit /\ [][PromptNext]_vars

-----------------------------------------------------------------------------
(* Concurrent callers.  The web application serves each request on its own *)
(* thread, so calls of get_data_source and of the adapters' methods        *)
(* interleave between the statements that read the class-level registry,   *)
(* the environment and the adapter objects.                                *)

ThreadIds == {"t1", "t2"}

\* A caller that has not started.
IdleThread ==
    [pc |-> "idle", source_name |-> "", cls |-> "", api_key |-> NoAttr,
     out |-> NoCall, handle |-> 0, op |-> "", target |-> 0,
     answer |-> NoUpstream, request |-> <<>>, result_out |-> NoCall,
     value |-> <<>>, overlapped |-> FALSE]

\* The positions inside an operation (between two of its statements).
MidOperation == {"checked", "resolved", "sent"}

\* Whether another caller is inside an operation while self takes a step.
Overlaps(self) == \E other \in ThreadIds \ {self} : threads[other].pc \in MidOperation

\* The object a constructor call leaves on the heap and the reference it
\* returns: a new object each time.
NewInstanceMutant(heap, obj) ==
    IF \E i \in DOMAIN heap : heap[i] = obj
    THEN [heap |-> heap, handle |-> CHOOSE i \in DOMAIN heap : heap[i] = obj]
    ELSE [heap |-> Append(heap, obj), handle |-> Len(heap) + 1]

NewInstance(heap, obj) == [heap |-> Append(heap, obj), handle |-> Len(heap) + 1]

\* get_data_source, first statement: `if source_name not in cls.data_sources`
CheckSource(self, source_name) ==
    /\ threads[self].pc = "idle"
    /\ threads' = [threads EXCEPT ![self] =
         IF source_name \notin DOMAIN data_sources
         THEN [@ EXCEPT !.pc = "returned", !.source_name = source_name,
                        !.out = Raise("ValueError",
                                      <<"Unsupported API: ", source_name>>),
                        !.overlapped = @ \/ Overlaps(self)]
         ELSE [@ EXCEPT !.pc = "checked", !.source_name = source_name,
                        !.overlapped = @ \/ Overlaps(self)]]
    /\ UNCHANGED <<environ, data_sources, instances, call, getenv_calls, sent,
                   upstream, log, outcome, result, reported,
                   terminal>>

\* get_data_source, the class from the registry and the key from the
\* environment
ResolveSource(self) ==
    LET source_name == threads[self].source_name
        k == GetApiKey(environ, source_name)
    IN  /\ threads[self].pc = "checked"
        /\ threads' = [threads EXCEPT ![self] =
             IF source_name \notin DOMAIN data_sources
             THEN [@ EXCEPT !.pc = "returned",
                            !.out = Raise("KeyError", <<source_name>>),
                            !.overlapped = @ \/ Overlaps(self)]
             ELSE IF source_name \in KeyedSources /\ Raised(k.out)
             THEN [@ EXCEPT !.pc = "returned", !.out = k.out,
                            !.overlapped = @ \/ Overlaps(self)]
             ELSE [@ EXCEPT !.pc = "resolved",
                            !.cls = data_sources[source_name],
                            !.api_key = IF source_name \in KeyedSources
                                        THEN k.api_key ELSE NoAttr,
                            !.overlapped = @ \/ Overlaps(self)]]
        /\ UNCHANGED <<environ, data_sources, instances, call, getenv_calls,
                       sent, upstream, log, outcome, result, reported,
                   terminal>>

\* get_data_source, the constructor call and the return
ConstructSource(self) ==
    LET made == NewInstance(instances,
                            Construct(threads[self].cls, threads[self].api_key))
    IN  /\ threads[self].pc = "resolved"
        /\ Len(made.heap) <= MaxInstances
        /\ instances' = made.heap
        /\ threads' = [threads EXCEPT ![self] =
             [@ EXCEPT !.pc = "returned", !.out = Return,
                       !.handle = made.handle,
                       !.overlapped = @ \/ Overlaps(self)]]
        /\ UNCHANGED <<environ, data_sources, call, getenv_calls, sent,
                       upstream, log, outcome, result, reported,
                   terminal>>

AdapterOps == {"get_historical_data", "get_realtime_data"}

\* What the provider of an adapter class can answer to an operation.
AnswersFor(cls, op) ==
    {IF op = "get_historical_data" THEN u.historical ELSE u.realtime :
        u \in {v \in SessionUpstreams : Registry[v.source] = cls}}

\* The adapter operation op of self against the answer.
CallOf(self, op, answer) ==
    IF op = "get_historical_data"
    THEN HistoricalOf(self, answer, "AAPL", Day(1), Day(3), "1d")
    ELSE RealtimeOf(self, answer, "AAPL")

\* An adapter method up to its upstream request: it reads the adapter's
\* fields for the request.
SendRequest(self, target, op, answer) ==
    /\ threads[self].pc = "returned"
    /\ target \in DOMAIN instances
    /\ answer \in AnswersFor(instances[target].cls, op)
    /\ threads' = [threads EXCEPT ![self] =
         [@ EXCEPT !.pc = "sent", !.op = op, !.target = target,
                   !.answer = answer,
                   !.request = CallOf(instances[target], op, answer).sent,
                   !.overlapped = @ \/ Overlaps(self)]]
    /\ UNCHANGED <<environ, data_sources, instances, call, getenv_calls, sent,
                   upstream, log, outcome, result, reported,
                   terminal>>

\* An adapter method from the upstream's answer to its return or raise.
ReceiveAnswer(self) ==
    LET r == CallOf(instances[threads[self].target], threads[self].op,
                    threads[self].answer)
    IN  /\ threads[self].pc = "sent"
        /\ threads' = [threads EXCEPT ![self] =
             [@ EXCEPT !.pc = "done", !.result_out = r.out, !.value = r.value,
                       !.overlapped = @ \/ Overlaps(self)]]
        /\ UNCHANGED <<environ, data_sources, instances, call, getenv_calls,
                       sent, upstream, log, outcome, result, reported,
                   terminal>>

\* The registry names the concurrent callers ask for.
ConcurrentSourceNames == {"iex_cloud", "yahoo_finance", "invalid_source"}

ConcurrentInit ==
    /\ environ \in SessionEnvirons
    /\ data_sources = Registry
    /\ instances = <<>>
    /\ upstream = NoUpstream
    /\ call = [op |-> "none"]
    /\ getenv_calls = <<>>
    /\ sent = <<>>
    /\ log = <<>>
    /\ outcome = NoCall
    /\ result = <<>>
    /\ reported = NothingReported
    /\ threads = [t \in ThreadIds |-> IdleThread]
    /\ terminal = NoTerminal

ConcurrentNext ==
    \/ \E self \in ThreadIds, source_name \in ConcurrentSourceNames :
           CheckSource(self, source_name)
    \/ \E self \in ThreadIds : ResolveSource(self)
    \/ \E self \in ThreadIds : ConstructSource(self)
    \/ \E self \in ThreadIds, target \in 1..MaxInstances, op \in AdapterOps :
           \E answer \in IF target \in DOMAIN instances
                         THEN AnswersFor(instances[target].cls, op) ELSE {} :
               SendRequest(self, target, op, answer)
    \/ \E self \in ThreadIds : ReceiveAnswer(self)

ConcurrentSpec == ConcurrentInit /\ [][ConcurrentNext]_vars

-----------------------------------------------------------------------------
(* Claims about the registry, checked under FactorySpec.                   *)

LastCallIs(op) == call.op = op

\* C5: get_data_source with a name outside the registry fails with
\* ValueError "Unsupported API: <name>", whatever the environment holds, and
\* without any environment lookup (the name check comes first).
C5_UnknownNameUnsupported ==
    (LastCallIs("get_data_source") /\ call.source_name \notin DOMAIN Registry)
    => /\ outcome = Raise("ValueError", <<"Unsupported API: ", call.source_name>>)
       /\ getenv_calls = <<>>

C5_Witness ==
    /\ LastCallIs("get_data_source")
    /\ call.source_name = "invalid_source"
    /\ \A v \in EnvVars : environ[v] = "dummy_key"
    /\ outcome = Raise("ValueError", <<"Unsupported API: ", "invalid_source">>)

MissingKeyError(source_name) ==
    Raise("ValueError",
          <<"API key for ", source_name, " not found in environment variables">>)

\* C6: for alpha_vantage, iex_cloud and quandl, when the entry
\* <NAME>_API_KEY is absent or empty, get_data_source fails with the
\* missing-key ValueError naming the provider and constructs no adapter.
C6_MissingKeyFails ==
    [][(/\ call'.op = "get_data_source"
        /\ call'.source_name \in {"alpha_vantage", "iex_cloud", "quandl"}
        /\ environ[ApiKeyVar(call'.source_name)] \in {Unset, ""})
       => (/\ outcome' = MissingKeyError(call'.source_name)
           /\ instances' = instances)]_vars

C6_Witness ==
    /\ LastCallIs("get_data_source")
    /\ call.source_name = "iex_cloud"
    /\ environ[<<"IEX_CLOUD", "_API_KEY">>] = ""
    /\ environ[<<"QUANDL", "_API_KEY">>] = "dummy_key"
    /\ outcome = MissingKeyError("iex_cloud")
    /\ Len(instances) = 1

\* The name attribute each registry name's adapter carries.
AdapterNameOf(source_name) ==
    CASE source_name = "alpha_vantage" -> "Alpha Vantage"
      [] source_name = "yahoo_finance" -> "Yahoo Finance"
      [] source_name = "iex_cloud"     -> "IEX Cloud"
      [] source_name = "investing_com" -> "Investing.com"
      [] source_name = "quandl"        -> "Quandl"

\* C7: for each registry name get_data_source returns the adapter mapped to
\* it; a key-requiring adapter holds exactly the value of <NAME>_API_KEY;
\* yahoo_finance and investing_com are constructed without any environment
\* lookup and succeed whatever the environment holds.
C7_RegistryConstructs ==
    [][(call'.op = "get_data_source" /\ call'.source_name \in DOMAIN Registry)
       => LET n == call'.source_name
              keyed == n \in {"alpha_vantage", "iex_cloud", "quandl"}
          IN  /\ (~keyed) => (Returned(outcome') /\ getenv_calls' = <<>>)
              /\ (keyed /\ environ[ApiKeyVar(n)] \notin {Unset, ""})
                     => Returned(outcome')
              /\ Returned(outcome') =>
                   /\ Len(instances') = Len(instances) + 1
                   /\ SubSeq(instances', 1, Len(instances)) = instances
                   /\ LET a == instances'[Len(instances')]
                      IN  /\ a.cls = Registry[n]
                          /\ a.name = AdapterNameOf(n)
                          /\ keyed => a.api_key = environ[ApiKeyVar(n)]]_vars

C7_Witness ==
    /\ LastCallIs("get_data_source")
    /\ call.source_name = "yahoo_finance"
    /\ environ[<<"QUANDL", "_API_KEY">>] = "other_key"
    /\ environ[<<"ALPHA_VANTAGE", "_API_KEY">>] = Unset
    /\ environ[<<"IEX_CLOUD", "_API_KEY">>] = Unset
    /\ Returned(outcome)
    /\ getenv_calls = <<>>
    /\ Len(instances) = 2
    /\ instances[1].name = "Quandl"
    /\ instances[1].api_key = "other_key"
    /\ instances[2].name = "Yahoo Finance"


-----------------------------------------------------------------------------
(* Claims about get_historical_data, checked under Spec.                   *)

HistoricalBy(cls) == call.op = "get_historical_data" /\ call.cls = cls
HistoricalCall == call.op = "get_historical_data"
CallDatesValid == ValidDate(call.start_date) /\ ValidDate(call.end_date)
StartDay == ToOrdinal(call.start_date)
EndDay == ToOrdinal(call.end_date)

\* The timestamp of a returned record, whatever key the adapter stores it
\* under, and the ordinal of its calendar date.
BarDate(bar) == IF "Date" \in DOMAIN bar THEN bar["Date"] ELSE bar["date"]
BarDay(bar) == ToOrdinal(Prefix10(BarDate(bar)))
BarKey(bar) == <<InstantOf(BarDate(bar)), bar["open"]>>
NotAfter(s, t) == s[1] < t[1] \/ (s[1] = t[1] /\ s[2] <= t[2])

\* The rows of the upstream's answer in the order the adapter iterates them,
\* each as <<instant, open>> (<<0, 0>> and 0 for a row that lacks them);
\* <<>> when the answer holds no row list.
UpstreamRows ==
    CASE upstream.api = "alpha_vantage" ->
            IF call.interval \in DOMAIN IntervalFunctions
               /\ upstream.http = "ok"
               /\ TimeSeriesKeys[IntervalFunctions[call.interval]] \in DOMAIN upstream.data
            THEN LET series ==
                         upstream.data[TimeSeriesKeys[IntervalFunctions[call.interval]]]
                 IN  [i \in DOMAIN series |->
                         <<InstantOf(series[i][1]),
                           IF "1. open" \in DOMAIN series[i][2]
                           THEN FloatOf(series[i][2]["1. open"]) ELSE 0>>]
            ELSE <<>>
      [] upstream.api = "iex_cloud" ->
            [i \in DOMAIN upstream.data |->
                <<IF "date" \in DOMAIN upstream.data[i]
                  THEN InstantOf(upstream.data[i]["date"]) ELSE <<0, 0>>,
                  upstream.data[i]["open"]>>]
      [] upstream.api = "quandl" ->
            IF upstream.http = "ok" /\ "dataset" \in DOMAIN upstream.data
               /\ {"data", "column_names"} \subseteq DOMAIN upstream.data["dataset"]
            THEN LET rows == upstream.data["dataset"]["data"]
                     columns == upstream.data["dataset"]["column_names"]
                     listed(i, c) == IndexOf(columns, c) \in DOMAIN rows[i]
                     cell(i, c) == CellValue(rows[i][IndexOf(columns, c)])
                 IN  [i \in DOMAIN rows |->
                         <<IF listed(i, "Date") THEN InstantOf(cell(i, "Date"))
                           ELSE <<0, 0>>,
                           IF listed(i, "Open") THEN cell(i, "Open") ELSE 0>>]
            ELSE <<>>
      [] upstream.api = "yahoo_finance" ->
            [i \in DOMAIN upstream.rows |->
                <<<<upstream.rows[i].index.ord, upstream.rows[i].index.sec>>,
                  upstream.rows[i].cells["Open"]>>]
      [] OTHER -> <<>>

\* The answer arrived and holds the row list the adapter reads.
PayloadPresent ==
    CASE upstream.api = "alpha_vantage" ->
            /\ call.interval \in DOMAIN IntervalFunctions
            /\ upstream.http = "ok"
            /\ TimeSeriesKeys[IntervalFunctions[call.interval]] \in DOMAIN upstream.data
      [] upstream.api = "iex_cloud" -> upstream.http = "ok"
      [] upstream.api = "quandl" ->
            /\ upstream.http = "ok"
            /\ "dataset" \in DOMAIN upstream.data
            /\ {"data", "column_names"} \subseteq DOMAIN upstream.data["dataset"]
      [] upstream.api = "yahoo_finance" -> upstream.history = "frame"
      [] OTHER -> FALSE

InRequestedRange(instant) == StartDay <= instant[1] /\ instant[1] <= EndDay

\* C1: when the upstream's historical answer is present but holds no rows,
\* or none inside the requested range, get_historical_data fails with
\* InvalidSymbolError; it never returns an empty list.
C1_EmptyPayloadIsInvalidSymbol ==
    (HistoricalCall /\ CallDatesValid /\ StartDay <= EndDay /\ PayloadPresent)
    => /\ (\A i \in DOMAIN UpstreamRows : ~InRequestedRange(UpstreamRows[i][1]))
             => outcome.exc = "InvalidSymbolError"
       /\ ~(Returned(outcome) /\ result = <<>>)

RECURSIVE IsSubsequence(_, _)
IsSubsequence(a, b) ==
    IF a = <<>> THEN TRUE
    ELSE IF b = <<>> THEN FALSE
    ELSE IF Head(a) = Head(b) THEN IsSubsequence(Tail(a), Tail(b))
    ELSE IsSubsequence(a, Tail(b))

NonDecreasing(q) == \A i \in 1..(Len(q) - 1) : NotAfter(q[i][1], q[i + 1][1])

\* C3: the returned records are in the order in which the upstream's rows
\* are iterated, none reordered or duplicated, so they are non-decreasing in
\* time whenever the upstream's rows are; the generated days of the
\* Investing.com adapter are in increasing order.
C3_UpstreamOrderKept ==
    (HistoricalCall /\ Returned(outcome))
    => LET keys == [i \in DOMAIN result |-> BarKey(result[i])]
       IN  IF call.cls = "InvestingComDataSource"
           THEN \A i \in 1..(Len(keys) - 1) : keys[i][1][1] < keys[i + 1][1][1]
           ELSE /\ IsSubsequence(keys, UpstreamRows)
                /\ NonDecreasing(UpstreamRows) => NonDecreasing(keys)

C3_Witness ==
    /\ HistoricalBy("AlphaVantageDataSource")
    /\ Returned(outcome)
    /\ Len(UpstreamRows) = 2
    /\ ~NotAfter(UpstreamRows[1][1], UpstreamRows[2][1])
    /\ Len(result) = 2
    /\ BarKey(result[1]) = UpstreamRows[1]
    /\ BarKey(result[2]) = UpstreamRows[2]

\* C4: get_historical_data called with a start date after the end date
\* fails with DateRangeError, before any upstream request is issued.
C4_StartAfterEndIsDateRangeError ==
    (HistoricalCall /\ CallDatesValid /\ StartDay > EndDay)
    => (outcome.exc = "DateRangeError" /\ sent = <<>>)

C9_LowAtMostHigh ==
    (HistoricalBy("InvestingComDataSource") /\ Returned(outcome))
    => \A i \in DOMAIN result : result[i].low <= result[i].high

\* ticker.history returned a frame with rows and a date column.
YahooFrameUsable ==
    /\ upstream.history = "frame"
    /\ upstream.rows # <<>>
    /\ DateColumn(ResetColumns(upstream.index_name)) # ""

\* C10: Yahoo Finance adapter: for an intraday granularity over a range of
\* more than 7 days the start passed upstream is end - 7 days, a warning is
\* logged and the call does not fail for it; for a range of at most 7 days,
\* or a daily or coarser granularity, the requested start and end are passed.
C10_IntradayStartClamped ==
    (HistoricalBy("YahooFinanceDataSource") /\ CallDatesValid)
    => /\ Len(sent) = 1
       /\ sent[1].end = EndDay
       /\ IF call.interval \in {"1m", "5m", "15m", "30m", "60m", "1h"}
             /\ EndDay - StartDay > 7
          THEN /\ sent[1].start = EndDay - 7
               /\ \E i \in DOMAIN log :
                      /\ log[i].level = "warning"
                      /\ log[i].event = "adjusted start date"
               /\ YahooFrameUsable => Returned(outcome)
          ELSE (call.interval \in {"1m", "5m", "15m", "30m", "60m", "1h",
                                   "1d", "5d", "1wk", "1mo", "3mo"})
               => /\ sent[1].start = StartDay
                  /\ \A i \in DOMAIN log : log[i].level # "warning"
                                           \/ log[i].event # "adjusted start date"

C10_Witness ==
    /\ HistoricalBy("YahooFinanceDataSource")
    /\ call.interval = "1h"
    /\ call.start_date = <<2024, 2, 21>> /\ call.end_date = <<2024, 2, 29>>
    /\ sent = <<[op |-> "history", symbol |-> "AAPL",
                 start |-> ToOrdinal(<<2024, 2, 22>>),
                 end |-> ToOrdinal(<<2024, 2, 29>>), interval |-> "60m"]>>
    /\ Returned(outcome)
    /\ Len(result) = 2
    /\ \E i \in DOMAIN log : log[i].level = "warning"

\* C11: Yahoo Finance adapter: a granularity token outside the known set is
\* sent upstream as "1d", a known one as itself except "1h", sent as "60m";
\* get_historical_data does not fail because of the token.
C11_UnknownGranularityIsDaily ==
    (HistoricalBy("YahooFinanceDataSource") /\ CallDatesValid)
    => /\ Len(sent) = 1
       /\ sent[1].interval =
              (IF call.interval \in {"1m", "5m", "15m", "30m", "60m", "1d", "5d",
                                     "1wk", "1mo", "3mo"}
               THEN call.interval
               ELSE IF call.interval = "1h" THEN "60m" ELSE "1d")
       /\ YahooFrameUsable => Returned(outcome)

C11_Witness ==
    /\ HistoricalBy("YahooFinanceDataSource")
    /\ call.interval = "fast"
    /\ call.start_date = Day(3) /\ call.end_date = Day(3)
    /\ Len(sent) = 1
    /\ sent[1].interval = "1d"
    /\ Returned(outcome)
    /\ Len(result) = 1

\* C12: Alpha Vantage adapter: an interval outside the eight known ones makes
\* get_historical_data fail with ValueError "Invalid interval: <interval>",
\* without a fallback to daily and without any upstream request.
C12_UnknownIntervalIsValueError ==
    (/\ HistoricalBy("AlphaVantageDataSource")
     /\ call.interval \notin {"1min", "5min", "15min", "30min", "60min",
                              "daily", "weekly", "monthly"})
    => /\ outcome = Raise("ValueError", <<"Invalid interval: ", call.interval>>)
       /\ sent = <<>>
       /\ result = <<>>

C12_Witness ==
    /\ HistoricalBy("AlphaVantageDataSource")
    /\ call.interval = "hourly"
    /\ upstream.http = "ok"
    /\ "Time Series (Daily)" \in DOMAIN upstream.data
    /\ Len(upstream.data["Time Series (Daily)"]) = 2
    /\ outcome = Raise("ValueError", <<"Invalid interval: ", "hourly">>)
    /\ sent = <<>>


-----------------------------------------------------------------------------
(* Claims about get_realtime_data, checked under Spec.                     *)

RealtimeBy(cls) == call.op = "get_realtime_data" /\ call.cls = cls
RealtimeCall == call.op = "get_realtime_data"

\* The fields of ticker.info a Yahoo Finance quote is made of.
YahooRequiredInfo ==
    {"currentPrice", "change", "changePercent", "volume", "regularMarketTime"}

\* ticker.info was read, is not empty and lacks a required field (the key is
\* absent or holds None).
YahooInfoIncomplete ==
    /\ RealtimeBy("YahooFinanceDataSource")
    /\ upstream.info = "dict"
    /\ upstream.data # EmptyObject
    /\ \E k \in YahooRequiredInfo : IsNone(InfoGet(upstream.data, k))

\* C13 as stated: the Yahoo Finance adapter's get_realtime_data fails with
\* DataSourceError when the upstream info is not empty but lacks one of
\* currentPrice, change, changePercent, volume, regularMarketTime.
C13_IncompleteIsDataSourceError ==
    YahooInfoIncomplete => outcome.exc = "DataSourceError"

\* C13 as amended: in that case get_realtime_data fails with
\* StockDataFetcherError, the base class, which is no DataSourceError, and a
\* quote it returns has none of its fields missing.
C13_IncompleteIsBaseError ==
    /\ YahooInfoIncomplete
         => /\ outcome = Raise("StockDataFetcherError",
                   <<"Error fetching ", "real-time data", " from Yahoo Finance: ",
                     "Incomplete real-time data for ", call.symbol>>)
            /\ ~IsSubclass(outcome.exc, "DataSourceError")
            /\ result = <<>>
    /\ (RealtimeBy("YahooFinanceDataSource") /\ Returned(outcome))
         => /\ Len(result) = 1
            /\ \A k \in DOMAIN result[1] : ~IsNone(result[1][k])

C13_Witness ==
    /\ RealtimeBy("YahooFinanceDataSource")
    /\ call.symbol = "AAPL"
    /\ upstream.info = "dict"
    /\ DOMAIN upstream.data = {"currentPrice", "changePercent", "volume",
                               "regularMarketTime", "shortName"}
    /\ outcome.exc = "StockDataFetcherError"
    /\ result = <<>>


\* The realtime answer arrived and is empty: an empty JSON object, an empty
\* "Global Quote" object, an empty row list, an empty info dictionary.
RealtimePayloadEmpty ==
    CASE upstream.api = "alpha_vantage/quote" ->
            /\ upstream.http = "ok"
            /\ \/ upstream.data = EmptyObject
               \/ /\ "Global Quote" \in DOMAIN upstream.data
                  /\ upstream.data["Global Quote"] = EmptyObject
      [] upstream.api = "iex_cloud/quote" ->
            upstream.http = "ok" /\ upstream.data = EmptyObject
      [] upstream.api = "quandl" ->
            /\ upstream.http = "ok"
            /\ "dataset" \in DOMAIN upstream.data
            /\ "data" \in DOMAIN upstream.data["dataset"]
            /\ upstream.data["dataset"]["data"] = <<>>
      [] upstream.api = "yahoo_finance/info" ->
            upstream.info = "dict" /\ upstream.data = EmptyObject
      [] OTHER -> FALSE

\* C14: for every adapter with an upstream, get_realtime_data fails with
\* InvalidSymbolError when the realtime payload is empty, and returns no quote.
C14_EmptyRealtimeIsInvalidSymbol ==
    (RealtimeCall /\ RealtimePayloadEmpty)
    => (outcome.exc = "InvalidSymbolError" /\ result = <<>>)

\* The answer was transported and lacks a key or a column that the call reads.
MalformedPayload ==
    CASE upstream.api = "alpha_vantage" ->
            /\ HistoricalCall /\ CallDatesValid /\ PayloadPresent
            /\ LET series ==
                       upstream.data[TimeSeriesKeys[IntervalFunctions[call.interval]]]
               IN  \E i \in DOMAIN series :
                       /\ InRequestedRange(InstantOf(series[i][1]))
                       /\ ~({"1. open", "2. high", "3. low", "4. close", "5. volume"}
                              \subseteq DOMAIN series[i][2])
      [] upstream.api = "alpha_vantage/quote" ->
            /\ RealtimeCall /\ upstream.http = "ok"
            /\ "Global Quote" \in DOMAIN upstream.data
            /\ upstream.data["Global Quote"] # EmptyObject
            /\ ~({"02. open", "03. high", "04. low", "05. price", "06. volume",
                  "07. latest trading day", "08. previous close", "09. change",
                  "10. change percent"} \subseteq DOMAIN upstream.data["Global Quote"])
      [] upstream.api = "iex_cloud" ->
            /\ HistoricalCall /\ upstream.http = "ok"
            /\ \E i \in DOMAIN upstream.data :
                   ~({"date", "open", "high", "low", "close", "volume"}
                       \subseteq DOMAIN upstream.data[i])
      [] upstream.api = "iex_cloud/quote" ->
            /\ RealtimeCall /\ upstream.http = "ok"
            /\ upstream.data # EmptyObject
            /\ ~(RangeOf(IEXQuoteKeys) \subseteq DOMAIN upstream.data)
      [] upstream.api = "quandl" ->
            /\ HistoricalCall \/ RealtimeCall
            /\ upstream.http = "ok"
            /\ "dataset" \in DOMAIN upstream.data
            /\ "data" \in DOMAIN upstream.data["dataset"]
            /\ upstream.data["dataset"]["data"] # <<>>
            /\ \/ "column_names" \notin DOMAIN upstream.data["dataset"]
               \/ ~(RangeOf(QuandlColumns)
                      \subseteq RangeOf(upstream.data["dataset"]["column_names"]))
      [] OTHER -> FALSE

\* C15: for the Alpha Vantage, IEX Cloud and Quandl adapters, a payload that
\* was transported and lacks an expected key or column makes
\* get_historical_data and get_realtime_data fail with DataSourceError.
C15_MissingKeyIsDataSourceError ==
    MalformedPayload => outcome.exc = "DataSourceError"

\* C16: for the adapters that parse the dates (Alpha Vantage, Yahoo Finance,
\* Investing.com), get_historical_data called with a start or end date that
\* is no valid YYYY-MM-DD date fails with DateRangeError (for Alpha Vantage,
\* once the upstream has answered with the series, so that the dates are
\* parsed).
C16_BadDateIsDateRangeError ==
    (/\ HistoricalCall
     /\ call.cls \in {"AlphaVantageDataSource", "YahooFinanceDataSource",
                      "InvestingComDataSource"}
     /\ ~CallDatesValid
     /\ call.cls = "AlphaVantageDataSource" => PayloadPresent)
    => outcome.exc = "DateRangeError"


\* A caller (main() or index()) has run its try block.
CallerRan == call.op \in {"main", "index"} /\ reported.handler # "validation"

\* The try block ended with get_data_source's failure for an unknown name or
\* a missing key, or with the Alpha Vantage adapter's failure for an
\* interval it does not know.
FactoryOrIntervalFailure ==
    /\ Raised(outcome)
    /\ outcome.msg # <<>>
    /\ outcome.msg[1] \in {"Unsupported API: ", "API key for ", "Invalid interval: "}

\* C17: when a caller's try block ends with the factory's failure for an
\* unsupported provider or a missing credential, or with the Alpha Vantage
\* adapter's failure for an invalid interval, the failure is a kind of
\* StockDataFetcherError, the caller's handler for StockDataFetcherError
\* takes it, and it is not reported as an unexpected error.
C17_FactoryErrorsInTaxonomy ==
    (CallerRan /\ FactoryOrIntervalFailure)
    => /\ IsSubclass(outcome.exc, "StockDataFetcherError")
       /\ reported.handler = "StockDataFetcherError"

\* The keys of the canonical fields of a historical record.
CanonicalKeys == {"date", "open", "high", "low", "close", "volume", "interval"}

\* C18: every adapter's historical record stores the timestamp, open, high,
\* low, close, volume and the interval label under the same keys.
C18_SameCanonicalKeys ==
    (HistoricalCall /\ Returned(outcome))
    => \A i \in DOMAIN result : CanonicalKeys \subseteq DOMAIN result[i]


\* The dict-keyed item (as the IEX Cloud chart sends it) holding the values
\* of the row k of a WIKI dataset.
KeyedItem(k) ==
    ("date" :> CellValue(QuandlValues(k)["Date"]))
    @@ ("open" :> CellValue(QuandlValues(k)["Open"]))
    @@ ("high" :> CellValue(QuandlValues(k)["High"]))
    @@ ("low" :> CellValue(QuandlValues(k)["Low"]))
    @@ ("close" :> CellValue(QuandlValues(k)["Close"]))
    @@ ("volume" :> CellValue(QuandlValues(k)["Volume"]))

\* The number of the dataset row that the positional row item holds.
RowNumber(item, columns) ==
    CHOOSE k \in 0..ZeroOpenDay : QuandlRow(k, columns) = item

\* C19: for the same row values and the same interval, the record the Quandl
\* adapter builds by column-index lookup, whatever the order of column_names,
\* equals on date, open, high, low, close, volume and interval the record
\* the IEX Cloud adapter builds by key access.
C19_TabularEqualsKeyed ==
    (/\ HistoricalBy("QuandlDataSource")
     /\ Returned(outcome))
    => LET columns == upstream.data["dataset"]["column_names"]
           rows == upstream.data["dataset"]["data"]
       IN  /\ Len(result) = Len(rows)
           /\ \A i \in DOMAIN result :
                  LET keyed == IEXBar(KeyedItem(RowNumber(rows[i], columns)),
                                      call.interval)
                  IN  \A key \in CanonicalKeys : result[i][key] = keyed[key]

C19_Witness ==
    /\ HistoricalBy("QuandlDataSource")
    /\ Returned(outcome)
    /\ upstream.data["dataset"]["column_names"] = Reversed(QuandlColumns)
    /\ Len(result) = 2
    /\ result[1].date = Day(3)
    /\ result[1].open = 10300
    /\ result[2].date = Day(0)
    /\ result[2].volume = 1000
    /\ result[2].interval = "weekly"



-----------------------------------------------------------------------------
(* Claims about single adapters.                                           *)

\* A call of either method of the Yahoo Finance adapter has ended.
YahooCall == HistoricalBy("YahooFinanceDataSource") \/ RealtimeBy("YahooFinanceDataSource")

\* The library answered a Yahoo Finance call with nothing: an empty frame
\* (after the dates were parsed) or an empty info dictionary.
YahooEmptyResult ==
    \/ /\ HistoricalBy("YahooFinanceDataSource") /\ CallDatesValid
       /\ upstream.history = "frame" /\ upstream.rows = <<>>
    \/ /\ RealtimeBy("YahooFinanceDataSource")
       /\ upstream.info = "dict" /\ upstream.data = EmptyObject

\* The library raised during a Yahoo Finance call.
YahooLibraryRaised ==
    \/ /\ HistoricalBy("YahooFinanceDataSource") /\ CallDatesValid
       /\ upstream.history = "raise"
    \/ RealtimeBy("YahooFinanceDataSource") /\ upstream.info = "raise"

\* C21: Yahoo Finance adapter: the InvalidSymbolError raised for an empty
\* result reaches the caller as raised; an exception of the library reaches
\* the caller as a StockDataFetcherError; and whatever happens, either
\* method returns or fails with InvalidSymbolError or StockDataFetcherError
\* itself.
C21_OnlyTaxonomyEscapesYahoo ==
    YahooCall =>
        /\ Returned(outcome) \/ outcome.exc \in {"InvalidSymbolError",
                                                 "StockDataFetcherError"}
        /\ YahooEmptyResult =>
              outcome = Raise("InvalidSymbolError",
                              <<"No data found for symbol: ", call.symbol>>)
        /\ YahooLibraryRaised => outcome.exc = "StockDataFetcherError"

C21_Witness ==
    /\ HistoricalBy("YahooFinanceDataSource")
    /\ upstream.history = "raise" /\ upstream.exc = "ValueError"
    /\ outcome = Raise("StockDataFetcherError",
                       <<"Error fetching ", "data", " from Yahoo Finance: ",
                         "API Error">>)

\* The index of the frame is one of the date columns the adapter looks for.
YahooHasDateColumn == upstream.index_name \in {"Date", "Datetime", "date"}

\* The text "YYYY-MM-DD HH:MM:SS" of a frame's timestamp.
TimestampText(t) ==
    FromOrdinal(t.ord) \o <<t.sec \div 3600, (t.sec % 3600) \div 60, t.sec % 60>>

\* C22: Yahoo Finance adapter: for a non-empty frame with a date column
\* (Date or Datetime, in any case), get_historical_data returns one record
\* per row, in order, with the timestamp under "Date" as the text
\* YYYY-MM-DD HH:MM:SS and Open, High, Low, Close, Volume under open, high,
\* low, close, volume, unchanged; for a non-empty frame without such a
\* column it fails.
C22_FrameRowsBecomeRecords ==
    (/\ HistoricalBy("YahooFinanceDataSource") /\ CallDatesValid
     /\ upstream.history = "frame" /\ upstream.rows # <<>>)
    => IF YahooHasDateColumn
       THEN /\ Returned(outcome)
            /\ Len(result) = Len(upstream.rows)
            /\ \A i \in DOMAIN result :
                  /\ result[i]["Date"] = TimestampText(upstream.rows[i].index)
                  /\ result[i]["open"] = upstream.rows[i].cells["Open"]
                  /\ result[i]["high"] = upstream.rows[i].cells["High"]
                  /\ result[i]["low"] = upstream.rows[i].cells["Low"]
                  /\ result[i]["close"] = upstream.rows[i].cells["Close"]
                  /\ result[i]["volume"] = upstream.rows[i].cells["Volume"]
       ELSE Raised(outcome)

C22_Witness ==
    /\ HistoricalBy("YahooFinanceDataSource")
    /\ upstream.history = "frame" /\ upstream.index_name = "date"
    /\ Returned(outcome)
    /\ Len(result) = 2
    /\ result[1]["Date"] = <<2024, 2, 29, 10, 30, 0>>
    /\ result[2]["Date"] = <<2024, 2, 28, 0, 0, 0>>
    /\ result[1]["close"] = 10250
    /\ "Datetime" \notin DOMAIN result[1] /\ "date" \notin DOMAIN result[1]

\* The value the first upstream row of a Quandl answer holds in the column
\* called name: the cell at the position of name in column_names.
FirstRowValue(name) ==
    LET dataset == upstream.data["dataset"]
        position == CHOOSE i \in DOMAIN dataset["column_names"] :
                        dataset["column_names"][i] = name
    IN  CellValue(dataset["data"][1][position])

\* C23: Quandl adapter: get_realtime_data asks the upstream for one row, and
\* the quote it returns carries the requested symbol and, from the first
\* upstream row with each column found by its name in column_names,
\* price = Close, change = Close - Open,
\* change_percent = (Close - Open) / Open * 100 and volume = Volume.
C23_QuoteFromFirstRow ==
    RealtimeBy("QuandlDataSource")
    => /\ Len(sent) = 1 /\ sent[1].limit = 1
       /\ Returned(outcome) =>
             /\ result[1].symbol = call.symbol
             /\ result[1].price = FirstRowValue("Close")
             /\ result[1].change = FirstRowValue("Close") - FirstRowValue("Open")
             /\ result[1].change_percent.num * FirstRowValue("Open")
                   = (FirstRowValue("Close") - FirstRowValue("Open")) * 100
                     * result[1].change_percent.den
             /\ result[1].volume = FirstRowValue("Volume")

C23_Witness ==
    /\ RealtimeBy("QuandlDataSource")
    /\ Returned(outcome)
    /\ upstream.data["dataset"]["column_names"] = Reversed(QuandlColumns)
    /\ Len(upstream.data["dataset"]["data"]) = 2
    /\ call.symbol = "AAPL"
    /\ result[1].symbol = "AAPL"
    /\ result[1].price = 10350
    /\ result[1].change = 50
    /\ result[1].volume = 1003

\* The IEX Cloud upstream answered with a non-empty payload.
IEXAnswered == upstream.http = "ok" /\ upstream.data # <<>> /\ upstream.data # EmptyObject

\* The upstream names of the canonical and of the optional fields of a chart
\* item, and the record fields the optional ones are stored under.
IEXRowCanonical == {"date", "open", "high", "low", "close", "volume"}
IEXRowOptional ==
    ("change" :> "change") @@ ("changePercent" :> "change_percent")
    @@ ("vwap" :> "vwap") @@ ("unadjustedVolume" :> "unadjusted_volume")
    @@ ("marketCap" :> "market_cap")

\* The same for a quote.
IEXQuoteCanonical ==
    {"symbol", "latestPrice", "change", "changePercent", "volume", "latestUpdate"}
IEXQuoteNullable ==
    ("iexBidPrice" :> "bid") @@ ("iexAskPrice" :> "ask")
    @@ ("iexBidSize" :> "bid_size") @@ ("iexAskSize" :> "ask_size")

\* Of the fields a complete object has, a payload object lacks nothing but
\* fields of the optional set.
LacksOnly(object, complete, optional) ==
    DOMAIN complete \ DOMAIN object \subseteq optional

\* The optional field is stored as the upstream sent it, or as None.
StoredOrNull(record, object, renames) ==
    \A key \in DOMAIN renames :
        IF key \in DOMAIN object
        THEN record[renames[key]] = object[key]
        ELSE record[renames[key]] = "None"

\* C24: IEX Cloud adapter: rows (a quote) that lack only optional fields are
\* returned, with each absent optional field null and each present one as
\* sent; a row (a quote) that lacks a canonical field fails the call with
\* DataSourceError.
C24_OptionalNullCanonicalRequired ==
    /\ (HistoricalBy("IEXCloudDataSource") /\ IEXAnswered) =>
          /\ (\A i \in DOMAIN upstream.data :
                 LacksOnly(upstream.data[i], IEXItem(1), DOMAIN IEXRowOptional))
             => /\ Returned(outcome)
                /\ Len(result) = Len(upstream.data)
                /\ \A i \in DOMAIN result :
                      StoredOrNull(result[i], upstream.data[i], IEXRowOptional)
          /\ (\E i \in DOMAIN upstream.data :
                 ~(IEXRowCanonical \subseteq DOMAIN upstream.data[i]))
             => outcome.exc = "DataSourceError"
    /\ (RealtimeBy("IEXCloudDataSource") /\ IEXAnswered) =>
          /\ LacksOnly(upstream.data, IEXQuoteFull, DOMAIN IEXQuoteNullable)
             => /\ Returned(outcome)
                /\ StoredOrNull(result[1], upstream.data, IEXQuoteNullable)
          /\ ~(IEXQuoteCanonical \subseteq DOMAIN upstream.data)
             => outcome.exc = "DataSourceError"

\* A row without the optional fields came back with them null.
C24_Witness ==
    /\ HistoricalBy("IEXCloudDataSource")
    /\ Returned(outcome)
    /\ Len(result) = 2
    /\ "change" \notin DOMAIN upstream.data[1]
    /\ "change" \in DOMAIN upstream.data[2]
    /\ result[1].change = "None" /\ result[1].vwap = "None"
    /\ result[1].market_cap = "None"
    /\ result[2].change = 50 /\ result[2].market_cap = 5000000

\* C25: Investing.com adapter: get_realtime_data fails with
\* InvalidSymbolError for an empty symbol, and for a non-empty one returns a
\* quote whose symbol is the argument.
C25_EmptySymbolIsInvalidSymbol ==
    RealtimeBy("InvestingComDataSource")
    => IF call.symbol = ""
       THEN outcome.exc = "InvalidSymbolError"
       ELSE Returned(outcome) /\ result[1].symbol = call.symbol

\* The response key under which the Alpha Vantage upstream sends the series
\* of an interval.
AVUpstreamKey(interval) ==
    CASE interval = "daily" -> "Time Series (Daily)"
      [] interval = "weekly" -> "Weekly Time Series"
      [] interval = "monthly" -> "Monthly Time Series"
      [] interval = "1min" -> "Time Series (1min)"
      [] interval = "5min" -> "Time Series (5min)"
      [] interval = "15min" -> "Time Series (15min)"
      [] interval = "30min" -> "Time Series (30min)"
      [] interval = "60min" -> "Time Series (60min)"

\* C26: Alpha Vantage adapter: for a supported interval, a response that
\* carries the series under the upstream's key for that interval is not
\* rejected with InvalidSymbolError.
C26_SeriesKeyPerInterval ==
    (/\ HistoricalBy("AlphaVantageDataSource")
     /\ call.interval \in {"1min", "5min", "15min", "30min", "60min", "daily",
                           "weekly", "monthly"}
     /\ upstream.http = "ok"
     /\ AVUpstreamKey(call.interval) \in DOMAIN upstream.data)
    => outcome.exc # "InvalidSymbolError"

\* The series the adapter reads from an Alpha Vantage answer, as
\* <<timestamp, values>> pairs in the upstream's order.
AVSeriesRead == upstream.data[TimeSeriesKeys[IntervalFunctions[call.interval]]]

\* The day named by the first ten characters of a timestamp.
TimestampDay(ts) == ToOrdinal(<<ts[1], ts[2], ts[3]>>)

\* The timestamps of the entries whose day lies in the requested range.
AVTimestampsInRange ==
    LET chosen == SelectSeq(AVSeriesRead,
                            LAMBDA e : /\ StartDay <= TimestampDay(e[1])
                                       /\ TimestampDay(e[1]) <= EndDay)
    IN  [i \in DOMAIN chosen |-> chosen[i][1]]

\* C27: Alpha Vantage adapter: the records returned are exactly the upstream
\* entries whose timestamp's date part lies in [start_date, end_date], an
\* entry on end_date included whatever its time of day, and each record's
\* "date" is the entry's whole timestamp.
C27_IncludedIffDatePartInRange ==
    (HistoricalBy("AlphaVantageDataSource") /\ Returned(outcome))
    => [i \in DOMAIN result |-> result[i].date] = AVTimestampsInRange

C27_Witness ==
    /\ HistoricalBy("AlphaVantageDataSource")
    /\ Returned(outcome)
    /\ call.start_date = <<2024, 2, 28>> /\ call.end_date = <<2024, 2, 29>>
    /\ Len(AVSeriesRead) = 2
    /\ AVSeriesRead[1][1] = <<2024, 3, 1>>
    /\ Len(result) = 1
    /\ result[1].date = <<2024, 2, 29, 10, 30, 0>>

\* The adapter has issued its request: the HTTP adapters have sent it, the
\* Yahoo Finance adapter has called the library, and the Investing.com
\* adapter, which requests nothing, has been entered.
RequestIssued ==
    /\ HistoricalCall \/ RealtimeCall
    /\ \/ call.cls \in {"YahooFinanceDataSource", "InvestingComDataSource"}
       \/ sent # <<>>

\* C28: for every adapter and every payload the upstream can answer with,
\* get_historical_data and get_realtime_data, once the request has been
\* issued, either return or fail with an exception of the
\* StockDataFetcherError taxonomy; no raw ValueError, ZeroDivisionError or
\* AttributeError reaches the caller.
C28_NoRawExceptionEscapes ==
    (RequestIssued /\ Raised(outcome))
    => IsSubclass(outcome.exc, "StockDataFetcherError")

-----------------------------------------------------------------------------
(* Claims about the callers' use of the fetched data.                      *)

\* index() has fetched: the factory gave the adapter, get_historical_data
\* returned a non-empty list and get_realtime_data returned the quote.
IndexFetched ==
    /\ call.op = "index"
    /\ reported.handler # "validation"
    /\ instances # <<>>
    /\ result # <<>>
    /\ Returned(RealtimeOf(instances[Len(instances)], upstream.realtime,
                           call.symbol).out)

\* C29: for every provider, when index() has fetched a non-empty historical
\* list and the quote, it extracts the date and the close of the records and
\* renders the results page; it does not end with 'Unable to extract valid
\* date and price data.'.
C29_FetchedDataIsRendered ==
    IndexFetched
    => /\ reported.shown = "results.html"
       /\ reported.error # <<"Unable to extract valid date and price data.">>

\* main() waits at a date prompt and the user has typed a line.
AtPrompt ==
    /\ call.op = "none"
    /\ terminal.at \in {"start_date", "end_date"}
    /\ terminal.stdin # <<>>

\* The default main() announces at the prompt it waits at.
AnnouncedDefault ==
    IF terminal.at = "start_date" THEN DefaultStartDate ELSE DefaultEndDate

\* An empty line makes the prompt return, and the announced default is the
\* date main() goes on with.
EmptyLineTakesDefault ==
    (AtPrompt /\ Head(terminal.stdin) = EmptyLine)
    => /\ terminal'.at = AfterPrompt(terminal.at)
       /\ terminal'[terminal.at] = AnnouncedDefault

\* A line that is no date and not empty keeps the prompt asking, and a valid
\* date makes it return that date.
ValidLineReturned ==
    /\ (AtPrompt /\ Head(terminal.stdin) # EmptyLine
                 /\ ~ValidDate(Head(terminal.stdin)))
       => (terminal'.at = terminal.at /\ terminal'.stdin = Tail(terminal.stdin))
    /\ (AtPrompt /\ ValidDate(Head(terminal.stdin)))
       => /\ terminal'.at = AfterPrompt(terminal.at)
          /\ terminal'[terminal.at] = Head(terminal.stdin)

\* With both dates read, a start date after the end date ends main() with
\* DateRangeError and neither the factory nor an adapter has been invoked.
RangeCheckedFirst ==
    (/\ terminal.at = "compare" /\ call.op = "none" /\ call'.op = "main"
     /\ DateTextGreater(terminal.start_date, terminal.end_date))
    => /\ outcome'.exc = "DateRangeError"
       /\ instances' = instances
       /\ getenv_calls' = <<>>
       /\ sent' = <<>>

\* C30: at each date prompt of main() an empty line makes the prompt return
\* and the announced default (365 days ago for the start, today for the end)
\* is used; after any invalid lines a valid date makes the prompt return
\* that date; and a start date after the end date then raises
\* DateRangeError before the factory or any adapter is invoked.
C30_PromptDefaultsThenRangeCheck ==
    [][EmptyLineTakesDefault /\ ValidLineReturned /\ RangeCheckedFirst]_vars

-----------------------------------------------------------------------------
(* Claims about concurrent use.                                            *)

\* The callers whose get_data_source call has ended, and those whose
\* adapter call has ended.
FactoryDone == {t \in ThreadIds : threads[t].pc \in {"returned", "sent", "done"}}
AdapterDone == {t \in ThreadIds : threads[t].pc = "done"}

\* What get_data_source yields when it runs alone.
Alone(t) == DataSourceFor(Registry, environ, threads[t].source_name)

=============================================================================
